---- MODULE Spec2Model ----
(***************************************************************************)
(* The agent registry of src/registry/registry.py: the in-memory directory *)
(* (`registry`, `client_registry`), its MongoDB mirror and the Flask       *)
(* handlers that read and mutate it; the MCP client of                     *)
(* src/exchange_agent/mcp_client.py and the coroutines that use it; and    *)
(* the executors of the alerts and planner agents.                         *)
(***************************************************************************)
EXTENDS Integers, Sequences, FiniteSets, TLC

VARIABLES
  TEST_MODE,            \* registry.py:7
  USE_MONGO,            \* registry.py:30,33,41
  registry,             \* registry.py:48   dict: agent_id -> agent_url, plus 'agent_status'
  client_registry,      \* registry.py:49   dict: client_name -> api_url, plus 'agent_map'
  agent_registry_col,   \* registry.py:25   the "agents" collection of the store
  client_registry_col,  \* registry.py:26   the "client_registry" collection of the store
  clock,                \* datetime.now(): a logical clock, advanced by each call
  last,                 \* the request handled last and the HTTP status it returned
  pc,                   \* position of the delete_agent request in flight (threaded server)
  del_id,               \* its agent_id
  to_remove,            \* its local to_remove
  inflight,             \* two register / update_status requests in flight together
  client,               \* mcp_client.py:26-31  the MCPClient object (self)
  subprocesses,         \* stdio_client contexts entered and not exited: servers running
  sessions,             \* ClientSession contexts entered and not exited
  co,                   \* the coroutines that use the client, each with its position
  run,                  \* what has happened so far in the run of the client
  executions            \* the execute / cancel calls of the agent executors

\* the state of mcp_client.py and of the agent executors
agent_vars == <<client, subprocesses, sessions, co, run, executions>>

\* the state of registry.py
registry_vars == <<TEST_MODE, USE_MONGO, registry, client_registry, agent_registry_col,
                   client_registry_col, clock, last, pc, del_id, to_remove, inflight>>

vars == <<TEST_MODE, USE_MONGO, registry, client_registry, agent_registry_col,
          client_registry_col, clock, last, pc, del_id, to_remove, inflight,
          client, subprocesses, sessions, co, run, executions>>

-----------------------------------------------------------------------------
(* Bounds of the model.                                                    *)

\* number of times datetime.now() is called (by register and update_agent_status)
MaxClock == 1

-----------------------------------------------------------------------------
(* JSON / Python values, tagged by their type.                             *)

Null == [t |-> "null", v |-> <<>>]
Str(s) == [t |-> "str", v |-> s]
Bool(b) == [t |-> "bool", v |-> b]
Num(n) == [t |-> "num", v |-> n]
\* a list of JSON values
List(l) == [t |-> "list", v |-> l]
Dict(d) == [t |-> "dict", v |-> d]

\* Python truthiness: `not x`, `bool(x)`, `if x`
Truthy(j) ==
  CASE j.t = "null" -> FALSE
    [] j.t = "str"  -> j.v # ""
    [] j.t = "bool" -> j.v
    [] j.t = "num"  -> j.v # 0
    [] j.t = "list" -> Len(j.v) > 0
    [] j.t = "dict" -> DOMAIN j.v # {}

\* isinstance(x, list), isinstance(x, str)
IsList(j) == j.t = "list"
IsStr(j) == j.t = "str"

-----------------------------------------------------------------------------
(* Python dicts.  The two module-level dicts keep their insertion order    *)
(* (a sequence of key/value pairs); the nested dicts, which the code only  *)
(* reads by key, are functions from their keys.                            *)

EmptyDict == [x \in {} |-> Null]

FGet(f, k, default) == IF k \in DOMAIN f THEN f[k] ELSE default

FSet(f, k, val) == [x \in (DOMAIN f) \cup {k} |-> IF x = k THEN val ELSE f[x]]

FPop(f, k) == [x \in (DOMAIN f) \ {k} |-> f[x]]

\* {**f, **g}: the keys of g overwrite
FMerge(f, g) == [x \in (DOMAIN f) \cup (DOMAIN g) |-> IF x \in DOMAIN g THEN g[x] ELSE f[x]]

DictHas(d, k) == \E i \in 1..Len(d) : d[i].k = k

DictIdx(d, k) == CHOOSE i \in 1..Len(d) : d[i].k = k

DictGet(d, k) == d[DictIdx(d, k)].v

\* DictSet that inserts without looking for the key
DictSet_AlwaysAppends(d, k, val) == Append(d, [k |-> k, v |-> val])

\* d[k] = val: overwrite in place, or insert at the end
DictSet(d, k, val) ==
  IF DictHas(d, k) THEN [d EXCEPT ![DictIdx(d, k)].v = val]
  ELSE Append(d, [k |-> k, v |-> val])

\* d.pop(k, None)
DictPop(d, k) == SelectSeq(d, LAMBDA e : e.k # k)

DictKeys(d) == {d[i].k : i \in 1..Len(d)}

\* datetime.now().isoformat()
IsoFormat(n) == Str(ToString(n))

-----------------------------------------------------------------------------
(* Python str methods, on the characters the requests use.                 *)

LowerChar(c) == IF c = "A" THEN "a" ELSE IF c = "X" THEN "x" ELSE c

\* s.lower()
RECURSIVE lower(_)
lower(s) == IF Len(s) = 0 THEN "" ELSE LowerChar(Head(s)) \o lower(Tail(s))

RECURSIVE lstrip(_)
lstrip(s) == IF Len(s) > 0 /\ Head(s) = " " THEN lstrip(Tail(s)) ELSE s

RECURSIVE rstrip(_)
rstrip(s) ==
  IF Len(s) > 0 /\ SubSeq(s, Len(s), Len(s)) = " "
  THEN rstrip(SubSeq(s, 1, Len(s) - 1)) ELSE s

\* s.strip()
strip(s) == rstrip(lstrip(s))

\* the parts of s from position i on; cur is the part read so far
RECURSIVE SplitFrom(_, _, _)
SplitFrom(s, i, cur) ==
  IF i > Len(s) THEN <<cur>>
  ELSE IF SubSeq(s, i, i) = "," THEN <<cur>> \o SplitFrom(s, i + 1, "")
  ELSE SplitFrom(s, i + 1, cur \o SubSeq(s, i, i))

\* s.split(',')
split(s) == SplitFrom(s, 1, "")

\* needle in hay
Contains(needle, hay) ==
  \E i \in 1..(Len(hay) - Len(needle) + 1) : SubSeq(hay, i, i + Len(needle) - 1) = needle

-----------------------------------------------------------------------------
(* The store: two collections of documents, in their natural order.        *)

\* col.update_one({field: val}, {"$set": doc}, upsert=True)
UpdateOneSet(col, field, val, doc) ==
  IF \E i \in 1..Len(col) : FGet(col[i], field, Null) = val
  THEN LET i == CHOOSE i \in 1..Len(col) :
                  /\ FGet(col[i], field, Null) = val
                  /\ \A j \in 1..(i - 1) : FGet(col[j], field, Null) # val
       IN  [col EXCEPT ![i] = FMerge(col[i], doc)]
  ELSE Append(col, FMerge([x \in {field} |-> val], doc))

\* the loop of save_registry from item i on; `up`: the store answers this request's calls
RECURSIVE SaveAgents(_, _, _, _)
SaveAgents(reg, col, i, up) ==
  IF i > Len(reg) THEN col
  ELSE IF reg[i].k = "agent_status" THEN SaveAgents(reg, col, i + 1, up)
  ELSE LET st == IF DictHas(reg, "agent_status") THEN DictGet(reg, "agent_status")
                 ELSE Dict(EmptyDict)
       IN  IF st.t # "dict" \/ ~up THEN col   \* AttributeError / store error: caught, loop left
           ELSE LET status == FGet(st.v, reg[i].k, EmptyDict)
                    mongo_doc == FMerge([agent_id |-> Str(reg[i].k), agent_url |-> reg[i].v],
                                        status)
                IN  SaveAgents(reg, UpdateOneSet(col, "agent_id", Str(reg[i].k), mongo_doc),
                               i + 1, up)

save_registry(reg, col, up) ==
  IF TEST_MODE \/ ~USE_MONGO THEN col ELSE SaveAgents(reg, col, 1, up)

RECURSIVE SaveClients(_, _, _, _)
SaveClients(creg, col, i, up) ==
  IF i > Len(creg) THEN col
  ELSE IF creg[i].k = "agent_map" THEN SaveClients(creg, col, i + 1, up)
  ELSE LET am == IF DictHas(creg, "agent_map") THEN DictGet(creg, "agent_map")
                 ELSE Dict(EmptyDict)
       IN  IF am.t # "dict" \/ ~up THEN col
           ELSE LET doc == [api_url |-> creg[i].v, agent_id |-> FGet(am.v, creg[i].k, Null)]
                IN  SaveClients(creg, UpdateOneSet(col, "client_name", Str(creg[i].k), doc),
                                i + 1, up)

save_client_registry(creg, col, up) ==
  IF TEST_MODE \/ ~USE_MONGO THEN col ELSE SaveClients(creg, col, 1, up)

-----------------------------------------------------------------------------
(* Module-level bootstrap: the bulk load of both collections.              *)

\* the body of the agent loop for the first n documents; stops at the first exception
RECURSIVE LoadAgents(_, _, _, _)
LoadAgents(reg, docs, i, n) ==
  IF i > n THEN reg
  ELSE LET doc == docs[i]
           agent_id == FGet(doc, "agent_id", Null)
       IN  IF ~Truthy(agent_id) THEN LoadAgents(reg, docs, i + 1, n)
           ELSE LET reg1 == DictSet(reg, agent_id.v, FGet(doc, "agent_url", Null))
                    st == DictGet(reg1, "agent_status")
                    status == [alive |-> FGet(doc, "alive", Bool(FALSE)),
                               assigned_to |-> FGet(doc, "assigned_to", Null),
                               last_update |-> FGet(doc, "last_update", Null),
                               api_url |-> FGet(doc, "api_url", Null),
                               description |-> FGet(doc, "description", Str(""))]
                IN  IF st.t # "dict" THEN reg1   \* TypeError, caught by the except
                    ELSE LoadAgents(DictSet(reg1, "agent_status",
                                            Dict(FSet(st.v, agent_id.v, status))),
                                    docs, i + 1, n)

RECURSIVE LoadClients(_, _, _, _)
LoadClients(creg, docs, i, n) ==
  IF i > n THEN creg
  ELSE LET doc == docs[i]
           client_name == FGet(doc, "client_name", Null)
       IN  IF ~Truthy(client_name) THEN LoadClients(creg, docs, i + 1, n)
           ELSE LET creg1 == DictSet(creg, client_name.v, FGet(doc, "api_url", Null))
                    am == DictGet(creg1, "agent_map")
                IN  IF am.t # "dict" THEN creg1
                    ELSE LoadClients(DictSet(creg1, "agent_map",
                                             Dict(FSet(am.v, client_name.v,
                                                       FGet(doc, "agent_id", Null)))),
                                     docs, i + 1, n)

EmptyRegistry == <<[k |-> "agent_status", v |-> Dict(EmptyDict)]>>

EmptyClientRegistry == <<[k |-> "agent_map", v |-> Dict(EmptyDict)]>>

\* test_mode, use_mongo: the flags after lines 7-46; na, nc: documents each find() yields
\* before it fails (all of them when it does not fail)
BootRegistry(test_mode, use_mongo, acol, na) ==
  IF ~test_mode /\ use_mongo THEN LoadAgents(EmptyRegistry, acol, 1, na) ELSE EmptyRegistry

BootClientRegistry(test_mode, use_mongo, ccol, nc) ==
  IF ~test_mode /\ use_mongo THEN LoadClients(EmptyClientRegistry, ccol, 1, nc)
  ELSE EmptyClientRegistry

-----------------------------------------------------------------------------
(* The request handlers, as functions of the state they read.  A result    *)
(* carries the HTTP status: 200, 400 (InvalidInput), 404 (NotFound) or 500 *)
(* (an exception left the handler), and the state the handler leaves.      *)

NoBody == EmptyDict

\* registry.get('agent_status', {})
StatusValue(reg) ==
  IF DictHas(reg, "agent_status") THEN DictGet(reg, "agent_status") ELSE Dict(EmptyDict)

\* client_registry.get('agent_map', {})
AgentMapValue(creg) ==
  IF DictHas(creg, "agent_map") THEN DictGet(creg, "agent_map") ELSE Dict(EmptyDict)

\* _build_agent_payload; defined when registry['agent_status'] is a dict
build_agent_payload(reg, agent_id) ==
  LET agent_url == IF DictHas(reg, agent_id) THEN DictGet(reg, agent_id) ELSE Null
      status_obj == FGet(StatusValue(reg).v, agent_id, EmptyDict)
  IN  [agent_id |-> Str(agent_id),
       agent_url |-> agent_url,
       api_url |-> FGet(status_obj, "api_url", Null),
       alive |-> FGet(status_obj, "alive", Bool(FALSE)),
       assigned_to |-> FGet(status_obj, "assigned_to", Null),
       last_update |-> FGet(status_obj, "last_update", Null),
       capabilities |-> FGet(status_obj, "capabilities", List(<<>>)),
       tags |-> FGet(status_obj, "tags", List(<<>>)),
       description |-> FGet(status_obj, "description", Str(""))]

\* [x.strip() for x in f.split(',')] if f else []
FilterList(f) ==
  IF Truthy(f) THEN [i \in DOMAIN split(f.v) |-> strip(split(f.v)[i])] ELSE <<>>

\* any(c in agent_values for c in filter_list)
AnyIn(filter_list, agent_values) ==
  \E i \in DOMAIN filter_list : \E j \in DOMAIN agent_values : agent_values[j] = Str(filter_list[i])

\* args: request.args, the query string of GET /search
search_agents(reg, args) ==
  LET query == lower(strip(FGet(args, "q", Str("")).v))
      capabilities_list == FilterList(FGet(args, "capabilities", Null))
      tags_list == FilterList(FGet(args, "tags", Null))
      named == SelectSeq(reg, LAMBDA e :
                 /\ e.k # "agent_status"
                 /\ query # "" => Contains(query, lower(e.k)))
      kept == SelectSeq(named, LAMBDA e :
                LET payload == build_agent_payload(reg, e.k)
                IN  /\ capabilities_list # <<>> =>
                         AnyIn(capabilities_list, payload.capabilities.v)
                    /\ tags_list # <<>> => AnyIn(tags_list, payload.tags.v))
  IN  IF named # <<>> /\ StatusValue(reg).t # "dict"
      THEN [status |-> 500, body |-> <<>>]      \* AttributeError in _build_agent_payload
      ELSE [status |-> 200,
            body |-> [i \in DOMAIN kept |-> build_agent_payload(reg, kept[i].k)]]

get_agent(reg, agent_id) ==
  IF ~DictHas(reg, agent_id) \/ agent_id = "agent_status"
  THEN [status |-> 404, body |-> NoBody]
  ELSE IF StatusValue(reg).t # "dict" THEN [status |-> 500, body |-> NoBody]
  ELSE [status |-> 200, body |-> build_agent_payload(reg, agent_id)]

\* register that keeps the liveness and the assignment of a record it finds
register_KeepsLiveness(reg, acol, data, now, up) ==
  IF DOMAIN data = {} \/ "agent_id" \notin DOMAIN data \/ "agent_url" \notin DOMAIN data
  THEN [status |-> 400, reg |-> reg, acol |-> acol]
  ELSE LET agent_id == data["agent_id"].v
           reg1 == DictSet(reg, agent_id, data["agent_url"])
           st == DictGet(reg1, "agent_status")
           status == [api_url |-> FGet(data, "api_url", Null),
                      description |-> FGet(data, "description", Str("")),
                      last_update |-> IsoFormat(now)]
       IN  IF st.t # "dict" THEN [status |-> 500, reg |-> reg1, acol |-> acol]
           ELSE LET found == FGet(st.v, agent_id,
                                  [alive |-> Bool(FALSE), assigned_to |-> Null])
                    reg3 == DictSet(reg1, "agent_status",
                                    Dict(FSet(st.v, agent_id, FMerge(found, status))))
                IN  [status |-> 200, reg |-> reg3, acol |-> save_registry(reg3, acol, up)]

register(reg, acol, data, now, up) ==
  IF DOMAIN data = {} \/ "agent_id" \notin DOMAIN data \/ "agent_url" \notin DOMAIN data
  THEN [status |-> 400, reg |-> reg, acol |-> acol]
  ELSE LET agent_id == data["agent_id"].v
           reg1 == DictSet(reg, agent_id, data["agent_url"])
           reg2 == IF ~DictHas(reg1, "agent_status")
                   THEN DictSet(reg1, "agent_status", Dict(EmptyDict)) ELSE reg1
           st == DictGet(reg2, "agent_status")
           status == [alive |-> Bool(FALSE),
                      assigned_to |-> Null,
                      api_url |-> FGet(data, "api_url", Null),
                      description |-> FGet(data, "description", Str("")),
                      last_update |-> IsoFormat(now)]
       IN  IF st.t # "dict" THEN [status |-> 500, reg |-> reg2, acol |-> acol]
           ELSE LET reg3 == DictSet(reg2, "agent_status", Dict(FSet(st.v, agent_id, status)))
                IN  [status |-> 200, reg |-> reg3, acol |-> save_registry(reg3, acol, up)]

\* lines 234-246: the merge of the request into status_obj
MergeStatus(status_obj, data, now) ==
  LET s1 == IF "alive" \in DOMAIN data
            THEN FSet(status_obj, "alive", Bool(Truthy(data["alive"]))) ELSE status_obj
      s2 == IF "assigned_to" \in DOMAIN data
            THEN FSet(s1, "assigned_to", data["assigned_to"]) ELSE s1
      s3 == FSet(s2, "last_update", IsoFormat(now))
      s4 == IF "capabilities" \in DOMAIN data /\ IsList(data["capabilities"])
            THEN FSet(s3, "capabilities", data["capabilities"]) ELSE s3
      s5 == IF "tags" \in DOMAIN data /\ IsList(data["tags"])
            THEN FSet(s4, "tags", data["tags"]) ELSE s4
  IN  IF "description" \in DOMAIN data /\ IsStr(data["description"])
      THEN FSet(s5, "description", data["description"]) ELSE s5

\* update_agent_status whose guard forgets the reserved name
update_agent_status_NoReservedGuard(reg, acol, agent_id, data, now, up) ==
  IF ~DictHas(reg, agent_id)
  THEN [status |-> 404, reg |-> reg, acol |-> acol]
  ELSE LET st == StatusValue(reg)
       IN  IF st.t # "dict" THEN [status |-> 500, reg |-> reg, acol |-> acol]
           ELSE LET status_obj == MergeStatus(FGet(st.v, agent_id, EmptyDict), data, now)
                    reg1 == DictSet(reg, "agent_status", Dict(FSet(st.v, agent_id, status_obj)))
                IN  [status |-> 200, reg |-> reg1, acol |-> save_registry(reg1, acol, up)]

update_agent_status(reg, acol, agent_id, data, now, up) ==
  IF ~DictHas(reg, agent_id) \/ agent_id = "agent_status"
  THEN [status |-> 404, reg |-> reg, acol |-> acol]
  ELSE LET st == StatusValue(reg)
       IN  IF st.t # "dict" THEN [status |-> 500, reg |-> reg, acol |-> acol]
           ELSE LET status_obj == MergeStatus(FGet(st.v, agent_id, EmptyDict), data, now)
                    reg1 == DictSet(reg, "agent_status", Dict(FSet(st.v, agent_id, status_obj)))
                IN  [status |-> 200, reg |-> reg1, acol |-> save_registry(reg1, acol, up)]

\* lines 207-209
PopAgent(reg, agent_id) == DictPop(reg, agent_id)

PopStatus(reg, agent_id) ==
  IF DictHas(reg, "agent_status")
  THEN DictSet(reg, "agent_status", Dict(FPop(DictGet(reg, "agent_status").v, agent_id)))
  ELSE reg

\* lines 211-214
ToRemove(creg, agent_id) ==
  LET am == AgentMapValue(creg).v IN {c \in DOMAIN am : am[c] = Str(agent_id)}

\* PopClients that pops the api_url entries and leaves the alias map
PopClients_KeepsMap(creg, rm) == SelectSeq(creg, LAMBDA e : e.k \notin rm)

\* lines 216-218, for every name of rm
PopClients(creg, rm) ==
  LET creg1 == SelectSeq(creg, LAMBDA e : e.k \notin rm)
  IN  IF DictHas(creg1, "agent_map")
      THEN LET am == DictGet(creg1, "agent_map").v
           IN  DictSet(creg1, "agent_map", Dict([c \in (DOMAIN am) \ rm |-> am[c]]))
      ELSE creg1

delete_agent(reg, creg, acol, ccol, agent_id, up) ==
  IF ~DictHas(reg, agent_id) \/ agent_id = "agent_status"
  THEN [status |-> 404, reg |-> reg, creg |-> creg, acol |-> acol, ccol |-> ccol]
  ELSE LET reg1 == PopAgent(reg, agent_id)
       IN  IF StatusValue(reg1).t # "dict"
           THEN [status |-> 500, reg |-> reg1, creg |-> creg, acol |-> acol, ccol |-> ccol]
           ELSE LET reg2 == PopStatus(reg1, agent_id)
                IN  IF AgentMapValue(creg).t # "dict"
                    THEN [status |-> 500, reg |-> reg2, creg |-> creg,
                          acol |-> acol, ccol |-> ccol]
                    ELSE LET creg1 == PopClients(creg, ToRemove(creg, agent_id))
                         IN  [status |-> 200, reg |-> reg2, creg |-> creg1,
                              acol |-> save_registry(reg2, acol, up),
                              ccol |-> save_client_registry(creg1, ccol, up)]

lookup(reg, creg, id) ==
  IF DictHas(reg, id) /\ id # "agent_status"
  THEN LET st == DictGet(reg, "agent_status")
       IN  IF st.t # "dict" THEN [status |-> 500, body |-> NoBody]
           ELSE LET status_obj == FGet(st.v, id, EmptyDict)
                IN  [status |-> 200,
                     body |-> [agent_id |-> Str(id),
                               agent_url |-> DictGet(reg, id),
                               api_url |-> FGet(status_obj, "api_url", Null),
                               description |-> FGet(status_obj, "description", Str(""))]]
  ELSE IF DictHas(creg, id)
  THEN LET am == DictGet(creg, "agent_map")
       IN  IF am.t # "dict" \/ id \notin DOMAIN am.v
           THEN [status |-> 500, body |-> NoBody]         \* TypeError / KeyError
           ELSE LET agent_id == am.v[id]
                IN  IF ~IsStr(agent_id) \/ ~DictHas(reg, agent_id.v)
                    THEN [status |-> 500, body |-> NoBody]   \* KeyError: registry[agent_id]
                    ELSE LET st == DictGet(reg, "agent_status")
                         IN  IF st.t # "dict" THEN [status |-> 500, body |-> NoBody]
                             ELSE [status |-> 200,
                                   body |-> [agent_id |-> agent_id,
                                             agent_url |-> DictGet(reg, agent_id.v),
                                             api_url |-> DictGet(creg, id),
                                             description |->
                                               FGet(FGet(st.v, agent_id.v, EmptyDict),
                                                    "description", Str(""))]]
  ELSE [status |-> 404, body |-> NoBody]

\* the dict returned by list_agents, as the function name -> agent_url
list_agents(reg) ==
  [k \in DictKeys(reg) \ {"agent_status"} |-> DictGet(reg, k)]

list_clients(creg) ==
  [k \in DictKeys(creg) \ {"agent_map"} |-> Str("alive")]

stats(reg, creg) ==
  LET agents == SelectSeq(reg, LAMBDA e : e.k # "agent_status")
      st == DictGet(reg, "agent_status")
  IN  IF DictHas(reg, "agent_status") /\ Len(agents) > 0 /\ st.t # "dict"
      THEN [status |-> 500, body |-> NoBody]
      ELSE [status |-> 200,
            body |-> [total_agents |-> Len(agents),
                      alive_agents |->
                        IF DictHas(reg, "agent_status")
                        THEN Len(SelectSeq(agents, LAMBDA e :
                               Truthy(FGet(FGet(st.v, e.k, EmptyDict), "alive", Null))))
                        ELSE 0,
                      total_clients |-> Len(SelectSeq(creg, LAMBDA e : e.k # "agent_map")),
                      mongodb_enabled |-> (USE_MONGO /\ ~TEST_MODE)]]

-----------------------------------------------------------------------------
(* Inputs: what the store holds when the process starts, and the requests. *)

DocA1 ==
  [agent_id |-> Str("a1"), agent_url |-> Str("u1"), alive |-> Bool(TRUE),
   assigned_to |-> Str("w1"), api_url |-> Str("v1"), description |-> Str("d1"),
   last_update |-> IsoFormat(0), capabilities |-> List(<<Str("x")>>), tags |-> List(<<Str("t")>>)]

DocA2 == [agent_id |-> Str("a2"), agent_url |-> Str("u2")]

DocNoId == [agent_url |-> Str("u1")]

DocC1 == [client_name |-> Str("c1"), api_url |-> Str("w1"), agent_id |-> Str("a1")]

\* an alias that shares its name with agent a2
DocC2 == [client_name |-> Str("a2"), api_url |-> Str("w2"), agent_id |-> Str("a1")]

\* an alias of an agent the store does not hold
DocC3 == [client_name |-> Str("c3"), api_url |-> Str("w3"), agent_id |-> Str("a3")]

InitialStores ==
  { [agents |-> <<>>, clients |-> <<>>],
    [agents |-> <<DocA1>>, clients |-> <<DocC1>>],
    [agents |-> <<DocA1, DocNoId, DocA2>>, clients |-> <<DocC1, DocC2>>],
    [agents |-> <<DocA2>>, clients |-> <<DocC3>>] }

\* strings a URL path segment can carry (Flask's <agent_id>, <id>: never empty)
PathIds == {"a1", "a2", "agent_status"}

LookupNames == {"a1", "a2", "c1", "c3", "agent_map"}

\* request.json of POST /register
RegisterBodies ==
  {EmptyDict, [agent_id |-> Str("a1")], [agent_url |-> Str("u1")]}
  \cup {[agent_id |-> Str(i), agent_url |-> Str("u2")] : i \in {"a1", "a2", "agent_status", ""}}
  \cup {[agent_id |-> Str("a1"), agent_url |-> Str("")],
        [agent_id |-> Str("a2"), agent_url |-> Str("u1"),
         api_url |-> Str("v2"), description |-> Str("d2")]}

\* request.json of PUT /agents/<agent_id>/status
StatusBodies ==
  { EmptyDict,
    [alive |-> Bool(TRUE)],
    [assigned_to |-> Str("w2")],
    [capabilities |-> Str("y")],
    [description |-> Num(7)],
    [alive |-> Bool(TRUE), tags |-> List(<<Str("transit")>>)],
    [capabilities |-> List(<<Str("x")>>), tags |-> List(<<Str("transit"), Str("bus")>>)],
    [alive |-> Bool(TRUE), tags |-> List(<<Str("bus"), Num(7)>>)],
    [alive |-> Bool(FALSE), assigned_to |-> Null, capabilities |-> List(<<Str("y")>>),
     tags |-> Num(7), description |-> Str("d3")] }

\* request.args of GET /search
SearchArgs ==
  { EmptyDict,
    [q |-> Str(" A")],
    [q |-> Str("2"), tags |-> Str("")],
    [capabilities |-> Str("x, y"), tags |-> Str("transit")],
    [capabilities |-> Str("y,X")] }

\* LoadCount that takes a find() the store fails for one it answers
LoadCount_IgnoresFailure(col, ok) == Len(col)

\* how many documents a find() yields: all of them, or none when the store fails it
LoadCount(col, ok) == IF ok THEN Len(col) ELSE 0

\* what the two bulk loads of a process start met: whether the store answered the
\* find() of the agents (line 53) and of the clients (line 71); none is tried when the
\* connect has failed
Loads(use_mongo, okA, okC) ==
  IF use_mongo THEN [agents |-> Bool(okA), clients |-> Bool(okC)] ELSE EmptyDict

-----------------------------------------------------------------------------
(* State machine.                                                          *)

\* what the request named id found when it arrived
Pre(reg, creg, id) ==
  LET g == get_agent(reg, id)
  IN  [existed |-> DictHas(reg, id) /\ id # "agent_status",
       alive |-> g.status = 200 /\ Truthy(g.body["alive"]),
       assigned |-> g.status = 200 /\ g.body["assigned_to"] # Null,
       aliased |-> AgentMapValue(creg).t = "dict" /\ ToRemove(creg, id) # {}]

NoPre == [existed |-> FALSE, alive |-> FALSE, assigned |-> FALSE, aliased |-> FALSE]

Request(op, id, data, pre, up, status) ==
  [op |-> op, id |-> id, data |-> data, pre |-> pre, up |-> up, status |-> status]

\* no request is in flight with another
NoInflight == <<>>

\* None, where a field of the client refers to an object
NoObject == 0

\* MCPClient.__init__
MCPClient ==
  [initialized |-> FALSE, session |-> NoObject, client_context |-> NoObject,
   session_context |-> NoObject]

\* the coroutines that may use the client at the same time
Coroutines == 1..3

\* a coroutine that is not running a method of the client
IdleCoroutine ==
  [op |-> "none", tool |-> "", pc |-> "idle", obj |-> NoObject, target |-> NoObject,
   raising |-> FALSE, result |-> "none"]

\* nothing has happened yet: no method called, no object created, no await has raised,
\* no two coroutines have been inside initialize or cleanup together
NewRun == [calls |-> 0, objects |-> 0, failed |-> FALSE, overlapped |-> FALSE]

\* the execute / cancel calls the request handler may have in flight
Slots == 1..2

\* nothing asked of the upstream service yet, and no Message built yet
NoUpstream == [kind |-> "none"]

NoMessage == [role |-> "none", text |-> ""]

\* no call in this slot; event_queue is the EventQueue the call is given
NoExecution ==
  [agent |-> "none", op |-> "none", pc |-> "idle", upstream |-> NoUpstream,
   pending |-> NoMessage, event_queue |-> <<>>, result |-> "none"]

Init ==
  /\ client = MCPClient
  /\ subprocesses = {}
  /\ sessions = {}
  /\ co = [i \in Coroutines |-> IdleCoroutine]
  /\ run = NewRun
  /\ executions = [k \in Slots |-> NoExecution]
  /\ TEST_MODE \in BOOLEAN
  /\ USE_MONGO \in (IF TEST_MODE THEN {FALSE} ELSE BOOLEAN)
  /\ \E s \in (IF TEST_MODE THEN {[agents |-> <<>>, clients |-> <<>>]} ELSE InitialStores) :
       /\ agent_registry_col = s.agents
       /\ client_registry_col = s.clients
  /\ \E okA, okC \in (IF USE_MONGO THEN BOOLEAN ELSE {FALSE}) :
       /\ registry = BootRegistry(TEST_MODE, USE_MONGO, agent_registry_col,
                                  LoadCount(agent_registry_col, okA))
       /\ client_registry = BootClientRegistry(TEST_MODE, USE_MONGO, client_registry_col,
                                               LoadCount(client_registry_col, okC))
       /\ last = Request("boot", "", Loads(USE_MONGO, okA, okC), NoPre, okA /\ okC, 200)
  /\ clock = 0
  /\ pc = "idle"
  /\ del_id = ""
  /\ to_remove = {}
  /\ inflight = NoInflight

\* the process is started again: lines 7-79 run on the store as it is
Restart ==
  /\ pc = "idle"
  /\ last.op # "boot"
  /\ USE_MONGO' \in (IF TEST_MODE THEN {FALSE} ELSE BOOLEAN)
  /\ \E okA, okC \in (IF USE_MONGO' THEN BOOLEAN ELSE {FALSE}) :
       /\ registry' = BootRegistry(TEST_MODE, USE_MONGO', agent_registry_col,
                                   LoadCount(agent_registry_col, okA))
       /\ client_registry' = BootClientRegistry(TEST_MODE, USE_MONGO', client_registry_col,
                                                LoadCount(client_registry_col, okC))
       /\ last' = Request("boot", "", Loads(USE_MONGO', okA, okC), NoPre, okA /\ okC, 200)
  /\ UNCHANGED agent_vars
  /\ UNCHANGED <<TEST_MODE, agent_registry_col, client_registry_col, clock, pc, del_id,
                 to_remove>>
  /\ UNCHANGED inflight

\* the guard of lines 197, 204 and 228 passes
Known(reg, agent_id) == DictHas(reg, agent_id) /\ agent_id # "agent_status"

\* whether the store is reachable while a request is served; a process that did not
\* connect at start (lines 28-46) never calls it, and under TEST_MODE there is none
StoreAnswers == IF TEST_MODE THEN {FALSE} ELSE BOOLEAN

\* the store answered the calls of the request just served
Answered(req) == req.up /\ USE_MONGO

Register ==
  /\ pc = "idle"
  /\ \E data \in RegisterBodies, up \in StoreAnswers :
       LET r == register(registry, agent_registry_col, data, clock + 1, up)
           id == IF "agent_id" \in DOMAIN data THEN data["agent_id"].v ELSE ""
       IN  /\ r.status = 400 => ~up
           /\ r.status # 400 => clock < MaxClock     \* line 275 is reached
           /\ clock' = IF r.status # 400 THEN clock + 1 ELSE clock
           /\ registry' = r.reg
           /\ agent_registry_col' = r.acol
           /\ last' = Request("register", id, data, Pre(registry, client_registry, id),
                              up /\ r.status = 200, r.status)
  /\ UNCHANGED agent_vars
  /\ UNCHANGED <<TEST_MODE, USE_MONGO, client_registry, client_registry_col, pc, del_id,
                 to_remove>>
  /\ UNCHANGED inflight

\* the request body is read (line 231) once the guard of line 228 has passed
UpdateAgentStatus ==
  /\ pc = "idle"
  /\ \E agent_id \in PathIds :
       \E data \in (IF Known(registry, agent_id) THEN StatusBodies ELSE {EmptyDict}),
          up \in StoreAnswers :
         LET r == update_agent_status(registry, agent_registry_col, agent_id, data,
                                      clock + 1, up)
         IN  /\ r.status # 200 => ~up
             /\ r.status = 200 => clock < MaxClock     \* line 239 is reached
             /\ clock' = IF r.status = 200 THEN clock + 1 ELSE clock
             /\ registry' = r.reg
             /\ agent_registry_col' = r.acol
             /\ last' = Request("update_status", agent_id, data,
                                Pre(registry, client_registry, agent_id), up, r.status)
  /\ UNCHANGED agent_vars
  /\ UNCHANGED <<TEST_MODE, USE_MONGO, client_registry, client_registry_col, pc, del_id,
                 to_remove>>
  /\ UNCHANGED inflight

DeleteAgent ==
  /\ pc = "idle"
  /\ \E agent_id \in PathIds :
       \E up \in StoreAnswers :
         LET r == delete_agent(registry, client_registry, agent_registry_col,
                               client_registry_col, agent_id, up)
         IN  /\ r.status # 200 => ~up
             /\ registry' = r.reg
             /\ client_registry' = r.creg
             /\ agent_registry_col' = r.acol
             /\ client_registry_col' = r.ccol
             /\ last' = Request("delete", agent_id, EmptyDict,
                                Pre(registry, client_registry, agent_id), up, r.status)
  /\ UNCHANGED agent_vars
  /\ UNCHANGED <<TEST_MODE, USE_MONGO, clock, pc, del_id, to_remove>>
  /\ UNCHANGED inflight

\* a read handler that saves the directory before it answers
ReadEffect_SavesRegistry(reg, creg, acol, ccol) ==
  [reg |-> reg, creg |-> creg, acol |-> save_registry(reg, acol, TRUE), ccol |-> ccol]

\* what a read handler leaves: lines 130-199 and 284-323 assign to no key of registry
\* or client_registry and call neither a collection nor save_registry /
\* save_client_registry, also on the paths that return 404 or raise
ReadEffect(reg, creg, acol, ccol) ==
  [reg |-> reg, creg |-> creg, acol |-> acol, ccol |-> ccol]

\* a read request leaves the state ReadEffect gives
Read ==
  LET e == ReadEffect(registry, client_registry, agent_registry_col, client_registry_col)
  IN  /\ registry' = e.reg
      /\ client_registry' = e.creg
      /\ agent_registry_col' = e.acol
      /\ client_registry_col' = e.ccol
      /\ UNCHANGED agent_vars
      /\ UNCHANGED <<TEST_MODE, USE_MONGO, clock, pc, del_id, to_remove, inflight>>

GetAgent ==
  /\ \E agent_id \in PathIds :
       last' = Request("get", agent_id, EmptyDict, Pre(registry, client_registry, agent_id),
                       FALSE, get_agent(registry, agent_id).status)
  /\ Read

Lookup ==
  /\ \E id \in LookupNames :
       last' = Request("lookup", id, EmptyDict, Pre(registry, client_registry, id), FALSE,
                       lookup(registry, client_registry, id).status)
  /\ Read

Search ==
  /\ \E args \in SearchArgs :
       last' = Request("search", "", args, NoPre, FALSE, search_agents(registry, args).status)
  /\ Read

ListAgents ==
  /\ last' = Request("list_agents", "", EmptyDict, NoPre, FALSE, 200)
  /\ Read

ListClients ==
  /\ last' = Request("list_clients", "", EmptyDict, NoPre, FALSE, 200)
  /\ Read

Stats ==
  /\ last' = Request("stats", "", EmptyDict, NoPre, FALSE,
                   stats(registry, client_registry).status)
  /\ Read

Next ==
  \/ Restart
  \/ Register
  \/ UpdateAgentStatus
  \/ DeleteAgent
  \/ GetAgent
  \/ Lookup
  \/ Search
  \/ ListAgents
  \/ ListClients
  \/ Stats

Spec == Init /\ [][Next]_vars

-----------------------------------------------------------------------------
(* The threaded server: delete_agent takes no lock, so other requests run  *)
(* between its statements.  One DELETE request is followed statement by    *)
(* statement; the read handlers of above run in between.                   *)

\* lines 204-207: the guard, then registry.pop(agent_id, None)
DeleteBegin ==
  /\ pc = "idle"
  /\ \E agent_id \in PathIds :
       IF ~DictHas(registry, agent_id) \/ agent_id = "agent_status"
       THEN /\ last' = Request("delete", agent_id, EmptyDict,
                               Pre(registry, client_registry, agent_id), FALSE, 404)
            /\ UNCHANGED <<registry, pc, del_id>>
       ELSE /\ registry' = PopAgent(registry, agent_id)
            /\ pc' = "pop_status"
            /\ del_id' = agent_id
            /\ UNCHANGED last
  /\ UNCHANGED agent_vars
  /\ UNCHANGED <<TEST_MODE, USE_MONGO, client_registry, agent_registry_col,
                 client_registry_col, clock, to_remove>>
  /\ UNCHANGED inflight

\* lines 208-209
DeletePopStatus ==
  /\ pc = "pop_status"
  /\ IF StatusValue(registry).t # "dict"
     THEN /\ pc' = "idle"
          /\ last' = Request("delete", del_id, EmptyDict, NoPre, FALSE, 500)
          /\ UNCHANGED registry
     ELSE /\ registry' = PopStatus(registry, del_id)
          /\ pc' = "scan"
          /\ UNCHANGED last
  /\ UNCHANGED agent_vars
  /\ UNCHANGED <<TEST_MODE, USE_MONGO, client_registry, agent_registry_col,
                 client_registry_col, clock, del_id, to_remove>>
  /\ UNCHANGED inflight

\* lines 211-214
DeleteScan ==
  /\ pc = "scan"
  /\ IF AgentMapValue(client_registry).t # "dict"
     THEN /\ pc' = "idle"
          /\ last' = Request("delete", del_id, EmptyDict, NoPre, FALSE, 500)
          /\ UNCHANGED to_remove
     ELSE /\ to_remove' = ToRemove(client_registry, del_id)
          /\ pc' = "pop_clients"
          /\ UNCHANGED last
  /\ UNCHANGED agent_vars
  /\ UNCHANGED <<TEST_MODE, USE_MONGO, registry, client_registry, agent_registry_col,
                 client_registry_col, clock, del_id>>
  /\ UNCHANGED inflight

\* lines 216-218, one client name
DeletePopClient ==
  /\ pc = "pop_clients"
  /\ \E client_name \in to_remove :
       /\ client_registry' = PopClients(client_registry, {client_name})
       /\ to_remove' = to_remove \ {client_name}
  /\ UNCHANGED agent_vars
  /\ UNCHANGED <<TEST_MODE, USE_MONGO, registry, agent_registry_col, client_registry_col,
                 clock, last, pc, del_id>>
  /\ UNCHANGED inflight

\* lines 220-223
DeleteSave ==
  /\ pc = "pop_clients"
  /\ to_remove = {}
  /\ \E up \in StoreAnswers :
       /\ agent_registry_col' = save_registry(registry, agent_registry_col, up)
       /\ client_registry_col' = save_client_registry(client_registry, client_registry_col, up)
       /\ last' = Request("delete", del_id, EmptyDict, NoPre, up, 200)
  /\ pc' = "idle"
  /\ UNCHANGED agent_vars
  /\ UNCHANGED <<TEST_MODE, USE_MONGO, registry, client_registry, clock, del_id, to_remove>>
  /\ UNCHANGED inflight

NextThreaded ==
  \/ DeleteBegin
  \/ DeletePopStatus
  \/ DeleteScan
  \/ DeletePopClient
  \/ DeleteSave
  \/ GetAgent
  \/ Lookup
  \/ Search
  \/ ListAgents
  \/ ListClients
  \/ Stats

SpecThreaded == Init /\ [][NextThreaded]_vars

-----------------------------------------------------------------------------
(* Two mutations of one agent_id served together.  register and            *)
(* update_agent_status take no lock, so the statements of two requests     *)
(* interleave.  The status entry of the agent is a dict object: an         *)
(* update_agent_status fetches a reference to it (line 232) and assigns to *)
(* its keys in place, a register replaces it by a new dict (line 270).     *)
(* `inflight` keeps the objects (heap), which of them the status map holds *)
(* for the agent (entry, 0: none), and the two requests with their locals. *)

Threads == {1, 2}

\* the object the status map holds when the requests arrive, the {} of line 232 and
\* the dict of line 270 of request i
ArrivalObj == 1
FreshObj(i) == 10 + i
RegisterObj(i) == 20 + i

\* the statements of lines 234-246, in program order
MergeSteps == <<"alive", "assigned_to", "last_update", "capabilities", "tags", "description">>

\* the bodies of the requests served together
ConcurrentStatusBodies ==
  { [alive |-> Bool(TRUE)],
    [alive |-> Bool(TRUE), assigned_to |-> Str("w2")],
    [alive |-> Bool(FALSE), assigned_to |-> Null, description |-> Str("d3")] }

ConcurrentRequests ==
  {[op |-> "update_status", data |-> d] : d \in ConcurrentStatusBodies}
  \cup {[op |-> "register", data |-> [agent_id |-> Str("a1"), agent_url |-> Str("u2")]]}

\* one statement of lines 234-246 on status_obj
MergeField(status_obj, data, f, now) ==
  CASE f = "alive" ->
         IF "alive" \in DOMAIN data
         THEN FSet(status_obj, "alive", Bool(Truthy(data["alive"]))) ELSE status_obj
    [] f = "assigned_to" ->
         IF "assigned_to" \in DOMAIN data
         THEN FSet(status_obj, "assigned_to", data["assigned_to"]) ELSE status_obj
    [] f = "last_update" -> FSet(status_obj, "last_update", IsoFormat(now))
    [] f \in {"capabilities", "tags"} ->
         IF f \in DOMAIN data /\ IsList(data[f]) THEN FSet(status_obj, f, data[f])
         ELSE status_obj
    [] f = "description" ->
         IF f \in DOMAIN data /\ IsStr(data[f]) THEN FSet(status_obj, f, data[f])
         ELSE status_obj

\* registry['agent_status'][agent_id] = val
SetEntry(reg, agent_id, val) ==
  DictSet(reg, "agent_status", Dict(FSet(StatusValue(reg).v, agent_id, val)))

Thread(req) == [op |-> req.op, data |-> req.data, pc |-> "guard", k |-> 1, status_obj |-> 0]

\* two requests for agent a1 arrive together
Arrive ==
  /\ inflight = NoInflight
  /\ pc = "idle"
  /\ StatusValue(registry).t = "dict"
  /\ \E r1 \in {r \in ConcurrentRequests : r.op = "update_status"}, r2 \in ConcurrentRequests :
       LET held == "a1" \in DOMAIN StatusValue(registry).v
       IN  inflight' = [agent_id |-> "a1",
                        start |-> registry,
                        heap |-> IF held
                                 THEN [o \in {ArrivalObj} |-> StatusValue(registry).v["a1"]]
                                 ELSE [o \in {} |-> EmptyDict],
                        entry |-> IF held THEN ArrivalObj ELSE 0,
                        t |-> <<Thread(r1), Thread(r2)>>]
  /\ UNCHANGED agent_vars
  /\ UNCHANGED <<TEST_MODE, USE_MONGO, registry, client_registry, agent_registry_col,
                 client_registry_col, clock, last, pc, del_id, to_remove>>

\* request i is at statement p of handler op
At(i, op, p) ==
  /\ inflight # NoInflight
  /\ inflight.t[i].op = op
  /\ inflight.t[i].pc = p

\* request i returns
Return(i, up, status) ==
  last' = Request(inflight.t[i].op, inflight.agent_id, inflight.t[i].data, NoPre, up, status)

\* lines 228-229
UpdateGuard(i) ==
  /\ At(i, "update_status", "guard")
  /\ IF Known(registry, inflight.agent_id)
     THEN /\ inflight' = [inflight EXCEPT !.t[i].pc = "fetch"]
          /\ UNCHANGED last
     ELSE /\ inflight' = [inflight EXCEPT !.t[i].pc = "done"]
          /\ Return(i, FALSE, 404)
  /\ UNCHANGED agent_vars
  /\ UNCHANGED <<TEST_MODE, USE_MONGO, registry, client_registry, agent_registry_col,
                 client_registry_col, clock, pc, del_id, to_remove>>

\* lines 231-232: status_obj is the object the status map holds, or a new {}
UpdateFetch(i) ==
  /\ At(i, "update_status", "fetch")
  /\ inflight' =
       IF inflight.entry # 0
       THEN [inflight EXCEPT !.t[i].pc = "merge", !.t[i].status_obj = inflight.entry]
       ELSE [inflight EXCEPT !.t[i].pc = "merge", !.t[i].status_obj = FreshObj(i),
                             !.heap = FSet(@, FreshObj(i), EmptyDict)]
  /\ UNCHANGED agent_vars
  /\ UNCHANGED <<TEST_MODE, USE_MONGO, registry, client_registry, agent_registry_col,
                 client_registry_col, clock, last, pc, del_id, to_remove>>

\* one statement of lines 234-246: it assigns to a key of the object status_obj refers
\* to, which shows in the status map when the map holds that object
UpdateMerge(i) ==
  /\ At(i, "update_status", "merge")
  /\ LET th == inflight.t[i]
         f == MergeSteps[th.k]
         obj == MergeField(inflight.heap[th.status_obj], th.data, f, clock + 1)
     IN  /\ inflight' = [inflight EXCEPT
                           !.heap[th.status_obj] = obj,
                           !.t[i].k = IF th.k < Len(MergeSteps) THEN th.k + 1 ELSE th.k,
                           !.t[i].pc = IF th.k < Len(MergeSteps) THEN "merge" ELSE "store"]
         /\ registry' = IF inflight.entry = th.status_obj
                        THEN SetEntry(registry, inflight.agent_id, obj) ELSE registry
         /\ clock' = IF f = "last_update" THEN clock + 1 ELSE clock
  /\ UNCHANGED agent_vars
  /\ UNCHANGED <<TEST_MODE, USE_MONGO, client_registry, agent_registry_col,
                 client_registry_col, last, pc, del_id, to_remove>>

\* line 248
UpdateStoreBack(i) ==
  /\ At(i, "update_status", "store")
  /\ LET th == inflight.t[i]
     IN  /\ registry' = SetEntry(registry, inflight.agent_id, inflight.heap[th.status_obj])
         /\ inflight' = [inflight EXCEPT !.entry = th.status_obj, !.t[i].pc = "save"]
  /\ UNCHANGED agent_vars
  /\ UNCHANGED <<TEST_MODE, USE_MONGO, client_registry, agent_registry_col,
                 client_registry_col, clock, last, pc, del_id, to_remove>>

\* lines 249-251, and line 278-281 of register
SaveAndReturn(i) ==
  /\ inflight # NoInflight
  /\ inflight.t[i].pc = "save"
  /\ \E up \in StoreAnswers :
       /\ agent_registry_col' = save_registry(registry, agent_registry_col, up)
       /\ Return(i, up, 200)
  /\ inflight' = [inflight EXCEPT !.t[i].pc = "done"]
  /\ UNCHANGED agent_vars
  /\ UNCHANGED <<TEST_MODE, USE_MONGO, registry, client_registry, client_registry_col,
                 clock, pc, del_id, to_remove>>

\* lines 256-265: the body is complete, registry[agent_id] = agent_url
RegisterSetUrl(i) ==
  /\ At(i, "register", "guard")
  /\ registry' = DictSet(registry, inflight.agent_id, inflight.t[i].data["agent_url"])
  /\ inflight' = [inflight EXCEPT !.t[i].pc = "set_status"]
  /\ UNCHANGED agent_vars
  /\ UNCHANGED <<TEST_MODE, USE_MONGO, client_registry, agent_registry_col,
                 client_registry_col, clock, last, pc, del_id, to_remove>>

\* lines 270-276: the status map holds a new dict for the agent
RegisterSetStatus(i) ==
  /\ At(i, "register", "set_status")
  /\ LET data == inflight.t[i].data
         obj == [alive |-> Bool(FALSE),
                 assigned_to |-> Null,
                 api_url |-> FGet(data, "api_url", Null),
                 description |-> FGet(data, "description", Str("")),
                 last_update |-> IsoFormat(clock + 1)]
     IN  /\ registry' = SetEntry(registry, inflight.agent_id, obj)
         /\ inflight' = [inflight EXCEPT !.heap = FSet(@, RegisterObj(i), obj),
                                         !.entry = RegisterObj(i),
                                         !.t[i].pc = "save"]
  /\ clock' = clock + 1
  /\ UNCHANGED agent_vars
  /\ UNCHANGED <<TEST_MODE, USE_MONGO, client_registry, agent_registry_col,
                 client_registry_col, last, pc, del_id, to_remove>>

NextConcurrent ==
  \/ Arrive
  \/ \E i \in Threads : UpdateGuard(i)
  \/ \E i \in Threads : UpdateFetch(i)
  \/ \E i \in Threads : UpdateMerge(i)
  \/ \E i \in Threads : UpdateStoreBack(i)
  \/ \E i \in Threads : RegisterSetUrl(i)
  \/ \E i \in Threads : RegisterSetStatus(i)
  \/ \E i \in Threads : SaveAndReturn(i)

SpecConcurrent == Init /\ [][NextConcurrent]_vars

-----------------------------------------------------------------------------
(* Properties.                                                             *)

\* the agent_ids of the agent directory, and the names of the alias directory
AgentIds(reg) == DictKeys(reg) \ {"agent_status"}

ClientNames(creg) == DictKeys(creg) \ {"agent_map"}

\* the client names the alias map sends to agent_id
AliasesOf(creg, agent_id) ==
  LET am == AgentMapValue(creg)
  IN  IF am.t = "dict" THEN {c \in DOMAIN am.v : am.v[c] = Str(agent_id)} ELSE {}

\* C1: cascade integrity.  When delete(agent_id) succeeds, the Agent Record is gone
\* (its agent_url and its status entry), no entry of the alias map names agent_id any
\* more, and every alias that named it has lost both its agent_map entry and its
\* api_url entry.
C1_CascadeIntegrity ==
  [][ (last'.op = "delete" /\ last'.status = 200) =>
        LET id == last'.id
        IN  /\ ~DictHas(registry', id)
            /\ id \notin DOMAIN StatusValue(registry').v
            /\ AliasesOf(client_registry', id) = {}
            /\ \A c \in AliasesOf(client_registry, id) :
                 /\ ~DictHas(client_registry', c)
                 /\ c \notin DOMAIN AgentMapValue(client_registry').v ]_vars

\* a delete that succeeded on an agent some alias pointed at
C1_Witness ==
  /\ last.op = "delete" /\ last.status = 200
  /\ last.pre.existed /\ last.pre.aliased
  /\ ClientNames(client_registry) = {}

\* C2: delete persists the removal.  After a successful delete with the store
\* reachable, the store holds neither the agent's document nor a document of an alias
\* of that agent.
C2_DeletePersistsRemoval ==
  (last.op = "delete" /\ last.status = 200 /\ Answered(last)) =>
    /\ \A i \in 1..Len(agent_registry_col) :
         FGet(agent_registry_col[i], "agent_id", Null) # Str(last.id)
    /\ \A i \in 1..Len(client_registry_col) :
         FGet(client_registry_col[i], "agent_id", Null) # Str(last.id)

\* C2, second half: a bootstrap that follows a successful, persisted delete does not
\* bring the deleted agent back.
C2_NoResurrection ==
  [][ (last.op = "delete" /\ last.status = 200 /\ Answered(last)
        /\ last'.op = "boot") =>
        ~DictHas(registry', last.id) ]_vars

ReadOps == {"get", "lookup", "search", "list_agents", "list_clients", "stats"}

\* a read handler runs: it answers from the maps as they are
ReadStep ==
  /\ last'.op \in ReadOps
  /\ registry' = registry /\ client_registry' = client_registry /\ pc' = pc

\* the delete in flight has removed the agent and an alias of it is still listed
Torn ==
  /\ pc # "idle"
  /\ ~DictHas(registry, del_id)
  /\ \E c \in AliasesOf(client_registry, del_id) : DictHas(client_registry, c)

\* C3: the cascade of delete is atomic to readers.  No read handler runs on maps in
\* which the agent of the delete in flight is gone while an alias of it is present.
C3_CascadeAtomicToReaders == [][ReadStep => ~Torn]_vars

\* C4: 'agent_status' is never an agent_id.  Whatever is requested, the reserved key
\* holds the status map, no agent named 'agent_status' shows through list_agents, get
\* or lookup, and a register with agent_id = 'agent_status' leaves the status of every
\* agent as it was.
C4_ReservedName ==
  [][ /\ StatusValue(registry').t = "dict"
      /\ "agent_status" \notin DOMAIN list_agents(registry')
      /\ get_agent(registry', "agent_status").status # 200
      /\ lookup(registry', client_registry', "agent_status").status # 200
      /\ (last'.op = "register" /\ last'.id = "agent_status") =>
           StatusValue(registry') = StatusValue(registry) ]_vars

\* agent_id or agent_url is missing or empty
MissingOrEmpty(data) ==
  \E f \in {"agent_id", "agent_url"} :
    IF f \in DOMAIN data THEN ~Truthy(data[f]) ELSE TRUE

\* C5: register fails with InvalidInput (400) whenever agent_id or agent_url is missing
\* or empty, and then leaves the agent directory and the alias directory as they were.
C5_RegisterRejectsEmpty ==
  [][ (last'.op = "register" /\ MissingOrEmpty(last'.data)) =>
        /\ last'.status = 400
        /\ registry' = registry
        /\ client_registry' = client_registry ]_vars

\* C6: a successful register leaves the record of agent_id with the agent_url, api_url
\* and description of the request, alive = false and assigned_to = null, whatever the
\* record was before, and leaves every other agent's record as it was.
C6_RegisterResets ==
  [][ (last'.op = "register" /\ last'.status = 200) =>
        LET id == last'.id
            data == last'.data
            view == build_agent_payload(registry', id)
        IN  /\ DictHas(registry', id)
            /\ view.agent_url = data["agent_url"]
            /\ view.api_url = FGet(data, "api_url", Null)
            /\ view.description = FGet(data, "description", Str(""))
            /\ view.alive = Bool(FALSE)
            /\ view.assigned_to = Null
            /\ AgentIds(registry') \ {id} = AgentIds(registry) \ {id}
            /\ \A a \in AgentIds(registry) \ {id} :
                 build_agent_payload(registry', a) = build_agent_payload(registry, a) ]_vars

\* a register that succeeded on an agent that was alive and assigned
C6_Witness ==
  /\ last.op = "register" /\ last.status = 200
  /\ last.pre.existed /\ last.pre.alive /\ last.pre.assigned
  /\ get_agent(registry, last.id).body["alive"] = Bool(FALSE)

\* no agent_id is held twice
UniqueKeys(d) == \A i, j \in 1..Len(d) : d[i].k = d[j].k => i = j

\* C7: uniqueness.  The agent directory never holds two records of one agent_id, and a
\* register with an agent_id that is already there leaves the ids of list_agents and
\* the total_agents of stats as they were.
C7_Uniqueness ==
  [][ /\ UniqueKeys(registry) /\ UniqueKeys(registry')
      /\ (last'.op = "register" /\ last'.id \in AgentIds(registry)) =>
           /\ DOMAIN list_agents(registry') = DOMAIN list_agents(registry)
           /\ Len(SelectSeq(registry', LAMBDA e : e.k # "agent_status"))
                = Len(SelectSeq(registry, LAMBDA e : e.k # "agent_status"))
           /\ (stats(registry, client_registry).status = 200
                 /\ stats(registry', client_registry').status = 200) =>
                stats(registry', client_registry').body["total_agents"]
                  = stats(registry, client_registry).body["total_agents"] ]_vars

\* a second register of an agent_id, with another agent_url, that succeeded
C7_Witness ==
  /\ last.op = "register" /\ last.status = 200 /\ last.pre.existed
  /\ last.id = "a1" /\ DictGet(registry, "a1") = Str("u2")
  /\ Cardinality(AgentIds(registry)) = 2

MergedFields == {"alive", "assigned_to", "capabilities", "tags", "description"}

\* the request carries field f in the shape the merge accepts
Carries(data, f) ==
  /\ f \in DOMAIN data
  /\ f \in {"capabilities", "tags"} => IsList(data[f])
  /\ f = "description" => IsStr(data[f])

\* the value the merge stores for a field the request carries
Carried(data, f) == IF f = "alive" THEN Bool(Truthy(data[f])) ELSE data[f]

\* C8: partial merge.  update_status on an existing agent overwrites exactly the fields
\* the request carries and leaves the other fields of the record, its agent_url and
\* api_url, and every other agent's record as they were; a get that follows shows it.
C8_PartialMerge ==
  [][ (last'.op = "update_status" /\ last'.id \in AgentIds(registry)) =>
        LET id == last'.id
            data == last'.data
            old == build_agent_payload(registry, id)
            new == get_agent(registry', id)
        IN  /\ last'.status = 200
            /\ new.status = 200
            /\ \A f \in MergedFields :
                 new.body[f] = IF Carries(data, f) THEN Carried(data, f) ELSE old[f]
            /\ new.body["agent_url"] = old["agent_url"]
            /\ new.body["api_url"] = old["api_url"]
            /\ AgentIds(registry') = AgentIds(registry)
            /\ \A a \in AgentIds(registry) \ {id} :
                 get_agent(registry', a) = get_agent(registry, a) ]_vars

\* C9: update_status, delete and get fail with NotFound (404) when agent_id has no
\* Agent Record, the reserved name included, and then leave the agent directory, the
\* alias directory and the store as they were.
C9_NotFound ==
  [][ (last'.op \in {"update_status", "delete", "get"}
         /\ last'.id \notin AgentIds(registry)) =>
        /\ last'.status = 404
        /\ registry' = registry
        /\ client_registry' = client_registry
        /\ agent_registry_col' = agent_registry_col
        /\ client_registry_col' = client_registry_col ]_vars

\* an update_status of the reserved name was answered 404, with the store connected and
\* agents in the directory
C9_Witness ==
  /\ last.op = "update_status" /\ last.id = "agent_status" /\ last.status = 404
  /\ USE_MONGO /\ AgentIds(registry) # {}

\* C10: the resolution order of lookup.  An agent_id of the agent directory resolves to
\* the agent's own view, also when an alias has the same name; else an alias mapped to
\* an agent A of the directory resolves to agent_id A, A's agent_url and the alias's
\* api_url; else, unless name is an alias of an absent agent, the answer is NotFound.
C10_LookupResolution ==
  (last.op = "lookup") =>
    LET name == last.id
        r == lookup(registry, client_registry, name)
        am == AgentMapValue(client_registry)
        aliased == am.t = "dict" /\ name \in DOMAIN am.v
    IN  IF name \in AgentIds(registry)
        THEN /\ r.status = 200
             /\ r.body["agent_id"] = Str(name)
             /\ r.body["agent_url"] = DictGet(registry, name)
             /\ r.body["api_url"] = build_agent_payload(registry, name).api_url
        ELSE IF aliased /\ IsStr(am.v[name]) /\ am.v[name].v \in AgentIds(registry)
        THEN /\ r.status = 200
             /\ r.body["agent_id"] = am.v[name]
             /\ r.body["agent_url"] = DictGet(registry, am.v[name].v)
             /\ r.body["api_url"] = DictGet(client_registry, name)
        ELSE aliased \/ r.status = 404

\* C11: lookup is total.  In every state a bootstrap and the requests lead to, and for
\* every name, lookup answers with a view (200) or with NotFound (404) and raises
\* nothing: also for an alias whose agent has no Agent Record and for 'agent_map'.
C11_LookupTotal ==
  (last.op = "lookup") => last.status \in {200, 404}

\* the values of a filter argument that is given: the comma-separated items
FilterItems(args, f) ==
  LET l == FilterList(FGet(args, f, Null)) IN {l[i] : i \in DOMAIN l}

\* the strings among the elements of a list value
Elements(j) == {j.v[i].v : i \in {k \in DOMAIN j.v : IsStr(j.v[k])}}

\* C12: the filter law of search.  For every cache and every (query, capabilities
\* filter, tags filter), search returns, once each, exactly the agents whose agent_id
\* contains the query without regard to case (if a query is given) and whose
\* capabilities meet the items of the capabilities filter (if given) and whose tags
\* meet the items of the tags filter (if given).
C12_FilterLaw ==
  (last.op = "search") =>
    LET args == last.data
        r == search_agents(registry, args)
        query == lower(strip(FGet(args, "q", Str("")).v))
        Matches(a) ==
          LET view == build_agent_payload(registry, a)
          IN  /\ query # "" => Contains(query, lower(a))
              /\ FilterItems(args, "capabilities") # {} =>
                   FilterItems(args, "capabilities") \cap Elements(view.capabilities) # {}
              /\ FilterItems(args, "tags") # {} =>
                   FilterItems(args, "tags") \cap Elements(view.tags) # {}
    IN  /\ r.status = 200
        /\ {r.body[i].agent_id.v : i \in DOMAIN r.body}
             = {a \in AgentIds(registry) : Matches(a)}
        /\ Len(r.body) = Cardinality({a \in AgentIds(registry) : Matches(a)})

\* C12 where the reserved key holds the status map
C12_FilterLawOfStatusMap ==
  (last.op = "search" /\ StatusValue(registry).t = "dict") => C12_FilterLaw

\* a search with both filters returned the one agent that meets both, of two
C12_BothFilters ==
  /\ last.op = "search" /\ last.status = 200
  /\ DOMAIN last.data = {"capabilities", "tags"}
  /\ Cardinality(AgentIds(registry)) = 2
  /\ Len(search_agents(registry, last.data).body) = 1

Mutations == {"register", "update_status", "delete"}

\* the request is one its handler is to carry out: a register that names an agent_id
\* (not the reserved one) and an agent_url, an update_status or a delete of an agent
\* of the directory
Accepted(req) ==
  IF req.op = "register"
  THEN ~MissingOrEmpty(req.data) /\ req.id # "agent_status"
  ELSE req.pre.existed

\* the maps a mutation leaves are the ones its handler leaves when the store answers
InMemoryEffect ==
  CASE last'.op = "register" ->
         registry' = register(registry, agent_registry_col, last'.data, clock', TRUE).reg
    [] last'.op = "update_status" ->
         registry' = update_agent_status(registry, agent_registry_col, last'.id,
                                         last'.data, clock', TRUE).reg
    [] last'.op = "delete" ->
         LET r == delete_agent(registry, client_registry, agent_registry_col,
                               client_registry_col, last'.id, TRUE)
         IN  registry' = r.reg /\ client_registry' = r.creg

\* a get that follows shows the record, or NotFound after a delete
GetFollows ==
  LET g == get_agent(registry', last'.id)
  IN  IF last'.op = "delete" THEN g.status = 404
      ELSE g.status = 200 /\ g.body["agent_url"] = DictGet(registry', last'.id)

\* C13: degraded store.  When the store does not answer the calls of a mutation, or
\* was never connected, the mutation still succeeds with its in-memory effect, a get
\* that follows returns the record, and stats reports the store as not enabled.
C13_DegradedStore ==
  [][ (last'.op \in Mutations /\ Accepted(last')
        /\ (~last'.up \/ ~USE_MONGO')) =>
        /\ last'.status = 200
        /\ InMemoryEffect
        /\ GetFollows
        /\ stats(registry', client_registry').status = 200
        /\ stats(registry', client_registry').body["mongodb_enabled"] = FALSE ]_vars

\* C13 without the report of stats, where the reserved key holds the status map
C13_DegradedStoreInMemory ==
  [][ (last'.op \in Mutations /\ Accepted(last')
         /\ (~last'.up \/ ~USE_MONGO')
         /\ StatusValue(registry).t = "dict") =>
        /\ last'.status = 200
        /\ InMemoryEffect
        /\ GetFollows ]_vars

\* C13 where the store was never connected and the reserved key holds the status map
C13_NeverConnected ==
  [][ (last'.op \in Mutations /\ Accepted(last') /\ ~USE_MONGO
         /\ StatusValue(registry).t = "dict") =>
        /\ last'.status = 200
        /\ stats(registry', client_registry').body["mongodb_enabled"] = FALSE ]_vars

ViewFields ==
  {"agent_url", "api_url", "alive", "assigned_to", "description", "capabilities", "tags"}

\* the view of an agent, without last_update
View(reg, a) == [f \in ViewFields |-> build_agent_payload(reg, a)[f]]

\* the store answered every call of the register or update_status just served, which
\* saved every agent of the cache, and the process starts again with the store
\* answering the connect and both bulk loads
SavedThenRestarted ==
  /\ last.op \in {"register", "update_status"} /\ last.status = 200 /\ Answered(last)
  /\ last'.op = "boot" /\ last'.up

\* C14: restart round trip.  After register and update_status calls that the store
\* answered, a restart rebuilds a cache that holds every agent of the cache before it,
\* and the view of each - agent_url, api_url, alive, assigned_to, description,
\* capabilities, tags - is the view it had before the restart.
C14_RestartRoundTrip ==
  [][ SavedThenRestarted =>
        /\ AgentIds(registry) \subseteq AgentIds(registry')
        /\ \A a \in AgentIds(registry) : View(registry', a) = View(registry, a) ]_vars

\* C14 for the fields the bulk load reads, and the agents whose agent_id is not empty
C14_RestartRoundTripOfLoadedFields ==
  [][ SavedThenRestarted =>
        /\ AgentIds(registry) \ {""} \subseteq AgentIds(registry')
        /\ \A a \in AgentIds(registry) \ {""} :
             \A f \in ViewFields \ {"capabilities", "tags"} :
               View(registry', a)[f] = View(registry, a)[f] ]_vars

\* the store was unavailable to the process start that `boot` records: the connect
\* failed (or TEST_MODE), or the store answered neither bulk load
StoreUnavailableAt(boot) ==
  /\ boot.op = "boot"
  /\ \/ boot.data = EmptyDict
     \/ boot.data = [agents |-> Bool(FALSE), clients |-> Bool(FALSE)]

C15_FirstBoot ==
  StoreUnavailableAt(last) => registry = EmptyRegistry /\ client_registry = EmptyClientRegistry

C16_ReadsArePure ==
  [][ (last'.op \in ReadOps) =>
        /\ registry' = registry
        /\ client_registry' = client_registry
        /\ agent_registry_col' = agent_registry_col
        /\ client_registry_col' = client_registry_col
        /\ USE_MONGO' = USE_MONGO ]_vars

\* a read that did not succeed was served while the store, connected, lagged behind the
\* cache, so that a save would have changed it
C16_Witness ==
  /\ last.op \in ReadOps /\ last.status # 200
  /\ USE_MONGO /\ ~TEST_MODE
  /\ save_registry(registry, agent_registry_col, TRUE) # agent_registry_col

\* the agents whose view shows alive = true
AliveAgents(reg) ==
  {a \in AgentIds(reg) : build_agent_payload(reg, a).alive = Bool(TRUE)}

\* C17: stats is an exact aggregate of the cache.  In every reachable state stats
\* answers, total_agents is the number of names of list_agents, alive_agents the number
\* of those whose view shows alive = true (so at most total_agents), and total_clients
\* the number of names of list_clients; the reserved keys are not counted.
C17_StatsAggregate ==
  LET r == stats(registry, client_registry)
  IN  /\ r.status = 200
      /\ r.body["total_agents"] = Cardinality(DOMAIN list_agents(registry))
      /\ r.body["alive_agents"] = Cardinality(AliveAgents(registry))
      /\ r.body["alive_agents"] <= r.body["total_agents"]
      /\ r.body["total_clients"] = Cardinality(DOMAIN list_clients(client_registry))
      /\ "agent_status" \notin DOMAIN list_agents(registry)
      /\ "agent_map" \notin DOMAIN list_clients(client_registry)

\* C17 where the reserved key holds the status map
C17_StatsAggregateOfStatusMap ==
  (StatusValue(registry).t = "dict") => C17_StatsAggregate

\* stats counted two agents, one of them alive, and an alias
C17_Counted ==
  /\ last.op = "stats" /\ last.status = 200
  /\ stats(registry, client_registry).body["total_agents"] = 2
  /\ stats(registry, client_registry).body["alive_agents"] = 1
  /\ stats(registry, client_registry).body["total_clients"] > 0

\* the directory after the requests r1, r2 of `inflight` were served one after the other
Serial(r1, r2) ==
  LET Apply(reg, req, now) ==
        IF req.op = "register"
        THEN register(reg, <<>>, req.data, now, FALSE).reg
        ELSE update_agent_status(reg, <<>>, inflight.agent_id, req.data, now, FALSE).reg
  IN  Apply(Apply(inflight.start, r1, 1), r2, 2)

BothReturned == inflight # NoInflight /\ \A i \in Threads : inflight.t[i].pc = "done"

\* C18: mutations are serialised.  When a register and an update_status, or two
\* update_status, of one agent_id are served together, the Agent Record they leave is
\* the record one of the two serial orders leaves.
C18_Serialised ==
  BothReturned =>
    \E o \in {<<1, 2>>, <<2, 1>>} :
      LET s == Serial(inflight.t[o[1]], inflight.t[o[2]])
      IN  /\ AgentIds(registry) = AgentIds(s)
          /\ View(registry, inflight.agent_id) = View(s, inflight.agent_id)

\* the statements of lines 234-246, one at a time, are the merge of update_agent_status
MergeStepsAreMergeStatus ==
  \A d \in StatusBodies \cup ConcurrentStatusBodies :
    LET RECURSIVE Steps(_, _)
        Steps(obj, k) ==
          IF k > Len(MergeSteps) THEN obj
          ELSE Steps(MergeField(obj, d, MergeSteps[k], 1), k + 1)
    IN  Steps([alive |-> Bool(FALSE), tags |-> List(<<Str("t")>>)], 1)
          = MergeStatus([alive |-> Bool(FALSE), tags |-> List(<<Str("t")>>)], d, 1)

\* the documents of the agents collection that update_one({"agent_id": id}, ...) matches
DocsOf(col, id) == SelectSeq(col, LAMBDA doc : FGet(doc, "agent_id", Null) = Str(id))

\* the record a document holds, read with the defaults of the view
StoreView(doc) ==
  [agent_url |-> FGet(doc, "agent_url", Null),
   api_url |-> FGet(doc, "api_url", Null),
   alive |-> FGet(doc, "alive", Bool(FALSE)),
   assigned_to |-> FGet(doc, "assigned_to", Null),
   description |-> FGet(doc, "description", Str("")),
   capabilities |-> FGet(doc, "capabilities", List(<<>>)),
   tags |-> FGet(doc, "tags", List(<<>>))]

\* a register or an update_status succeeded and the store answered its calls
Mirrored ==
  last.op \in {"register", "update_status"} /\ last.status = 200 /\ Answered(last)

\* C19: write-through mirror.  After a successful register or update_status whose
\* store calls were answered, the store holds a record of the agent that equals the
\* cache record field for field - agent_url, api_url, alive, assigned_to, description,
\* capabilities, tags - with nothing left over from an earlier version of the record.
C19_WriteThroughMirror ==
  Mirrored =>
    /\ Len(DocsOf(agent_registry_col, last.id)) = 1
    /\ StoreView(DocsOf(agent_registry_col, last.id)[1]) = View(registry, last.id)

\* C19 for the fields the cache record holds: each is in the store as it is in the cache
C19_MirrorOfHeldFields ==
  Mirrored =>
    /\ Len(DocsOf(agent_registry_col, last.id)) = 1
    /\ LET doc == DocsOf(agent_registry_col, last.id)[1]
           entry == FGet(StatusValue(registry).v, last.id, EmptyDict)
       IN  /\ FGet(doc, "agent_url", Null) = DictGet(registry, last.id)
           /\ \A f \in DOMAIN entry : f \in DOMAIN doc /\ doc[f] = entry[f]

\* the store holds a record of agent a with every field of its cache record
UpToDate(reg, col, a) ==
  /\ Len(DocsOf(col, a)) = 1
  /\ StatusValue(reg).t = "dict"
  /\ LET doc == DocsOf(col, a)[1]
         entry == FGet(StatusValue(reg).v, a, EmptyDict)
     IN  /\ FGet(doc, "agent_url", Null) = DictGet(reg, a)
         /\ \A f \in DOMAIN entry : f \in DOMAIN doc /\ doc[f] = entry[f]

\* a mutation succeeded while the store was reachable
MutatedWithStoreReachable ==
  last.op \in Mutations /\ last.status = 200 /\ last.up /\ ~TEST_MODE

\* C20: persistence resumes after an outage.  Once the store is reachable again,
\* after an outage at start or during individual calls, a successful mutation leaves
\* the store holding an up-to-date record of every agent of the cache.
C20_PersistenceResumes ==
  MutatedWithStoreReachable =>
    \A a \in AgentIds(registry) : UpToDate(registry, agent_registry_col, a)

\* C20 for a process that connected at start: an outage during individual calls is
\* repaired by the next mutation the store answers
C20_ResumesAfterCallOutage ==
  (MutatedWithStoreReachable /\ USE_MONGO) =>
    \A a \in AgentIds(registry) : UpToDate(registry, agent_registry_col, a)

\* a JSON value that is a sequence of strings
IsStrList(j) == IsList(j) /\ \A i \in DOMAIN j.v : IsStr(j.v[i])

\* the status record the cache holds for an agent
StatusEntry(reg, a) ==
  IF StatusValue(reg).t = "dict" THEN FGet(StatusValue(reg).v, a, EmptyDict) ELSE EmptyDict

\* field f of the status record of agent a is in reg2 what it was in reg1
KeptField(reg1, reg2, a, f) ==
  /\ (f \in DOMAIN StatusEntry(reg2, a)) = (f \in DOMAIN StatusEntry(reg1, a))
  /\ f \in DOMAIN StatusEntry(reg1, a) => StatusEntry(reg2, a)[f] = StatusEntry(reg1, a)[f]

\* an update_status of a known agent whose body carries field f with a value for which
\* Ignored(value) holds leaves the field as it was, applies alive and assigned_to of the
\* same body, and returns 200
GuardStep(Ignored(_)) ==
  \A f \in {"capabilities", "tags"} :
    (/\ last'.op = "update_status"
     /\ Known(registry, last'.id)
     /\ StatusValue(registry).t = "dict"
     /\ f \in DOMAIN last'.data
     /\ Ignored(last'.data[f]))
    => /\ last'.status = 200
       /\ KeptField(registry, registry', last'.id, f)
       /\ "alive" \in DOMAIN last'.data =>
            StatusEntry(registry', last'.id)["alive"] = Bool(Truthy(last'.data["alive"]))
       /\ "assigned_to" \in DOMAIN last'.data =>
            StatusEntry(registry', last'.id)["assigned_to"] = last'.data["assigned_to"]

\* C21: type guard on update_status.  A capabilities or tags value that is not a
\* sequence of strings - not a list, or a list with an element that is not a string -
\* is ignored: the stored field keeps its value, the other fields of the request are
\* applied and the call returns 200.
C21_TypeGuard == [][GuardStep(LAMBDA j : ~IsStrList(j))]_vars

\* C21, the conclusion: every capabilities or tags value the cache holds is a sequence
\* of strings
C21_StoredAreStringLists ==
  \A a \in AgentIds(registry) : \A f \in {"capabilities", "tags"} :
    f \in DOMAIN StatusEntry(registry, a) => IsStrList(StatusEntry(registry, a)[f])

\* C21 for a value that is not a list
C21_NonListIgnored == [][GuardStep(LAMBDA j : ~IsList(j))]_vars

\* every capabilities or tags value the cache holds is a list
C21_StoredAreLists ==
  \A a \in AgentIds(registry) : \A f \in {"capabilities", "tags"} :
    f \in DOMAIN StatusEntry(registry, a) => IsList(StatusEntry(registry, a)[f])

\* the keys of the status map and of the alias map (none when the reserved key holds
\* something else than a dict)
StatusKeys(reg) == IF StatusValue(reg).t = "dict" THEN DOMAIN StatusValue(reg).v ELSE {}

AliasKeys(creg) == IF AgentMapValue(creg).t = "dict" THEN DOMAIN AgentMapValue(creg).v ELSE {}

\* the ids an unfiltered search returns
SearchIds(reg) ==
  LET r == search_agents(reg, EmptyDict)
  IN  IF r.status = 200 THEN {r.body[i].agent_id.v : i \in DOMAIN r.body} ELSE {}

NamespacesAgree ==
  /\ StatusValue(registry).t = "dict"
  /\ AgentMapValue(client_registry).t = "dict"
  /\ AgentIds(registry) = StatusKeys(registry)
  /\ ClientNames(client_registry) = AliasKeys(client_registry)

ListedAreFound ==
  /\ \A a \in DOMAIN list_agents(registry) :
       get_agent(registry, a).status = 200 /\ a \in SearchIds(registry)
  /\ \A c \in DOMAIN list_clients(client_registry) : c \in AliasKeys(client_registry)

\* C22: namespace consistency.  Between requests, the agent_ids that hold an agent_url
\* are the agent_ids that hold a status entry, the client names that hold an api_url
\* are the keys of the alias map, every id list_agents returns is found by get and by
\* an unfiltered search, and every name list_clients returns is a key of the alias map.
C22_NamespaceConsistency == pc = "idle" => (NamespacesAgree /\ ListedAreFound)

\* C22 where register was never called with the reserved name
C22_NamespaceConsistencyOfStatusMap ==
  (pc = "idle" /\ StatusValue(registry).t = "dict") => (NamespacesAgree /\ ListedAreFound)

\* no document of the client_registry collection that the load keeps names an agent_id
\* for which the agents collection has no document that the load keeps
StoreHasNoDanglingAlias(acol, ccol) ==
  \A i \in DOMAIN ccol :
    Truthy(FGet(ccol[i], "client_name", Null)) =>
      \E j \in DOMAIN acol :
        /\ Truthy(FGet(acol[j], "agent_id", Null))
        /\ FGet(acol[j], "agent_id", Null) = FGet(ccol[i], "agent_id", Null)

\* every Client Alias Record of the cache names an agent of the cache, and lookup of
\* every listed client name succeeds
AliasesSound(reg, creg) ==
  \A c \in DOMAIN list_clients(creg) :
    /\ c \in AliasKeys(creg)
    /\ IsStr(AgentMapValue(creg).v[c])
    /\ AgentMapValue(creg).v[c].v \in AgentIds(reg)
    /\ lookup(reg, creg, c).status = 200

\* the process has just started
Booted == last.op = "boot" /\ pc = "idle"

\* C23: alias referential integrity.  A bootstrap from a store without dangling alias
\* gives a cache in which every alias names an agent of the cache and lookup of every
\* listed client name succeeds, and every register, update_status and delete keeps the
\* cache so.
C23_AliasIntegrity ==
  /\ [](Booted /\ StoreHasNoDanglingAlias(agent_registry_col, client_registry_col)
          => AliasesSound(registry, client_registry))
  /\ [][ (AliasesSound(registry, client_registry) /\ pc = "idle" /\ pc' = "idle"
           /\ last'.op \in Mutations)
          => AliasesSound(registry', client_registry') ]_vars

\* C23 where both bulk loads of the bootstrap were answered and register is not called
\* with the reserved name
C23_AliasIntegrityOfLoadedCache ==
  /\ [](Booted /\ StoreHasNoDanglingAlias(agent_registry_col, client_registry_col)
          /\ (USE_MONGO => last.up)
          => AliasesSound(registry, client_registry))
  /\ [][ (AliasesSound(registry, client_registry) /\ pc = "idle" /\ pc' = "idle"
           /\ last'.op \in Mutations /\ StatusValue(registry').t = "dict")
          => AliasesSound(registry', client_registry') ]_vars

-----------------------------------------------------------------------------
(* The MCP client of src/exchange_agent/mcp_client.py.  Its methods are    *)
(* coroutines of one event loop: a coroutine runs alone from one await to  *)
(* the next, and other coroutines run while it waits.  Each await of the   *)
(* server or of a context may raise.  An object (a stdio_client context    *)
(* and the ClientSession made on its streams) is named by a number.        *)

\* number of calls of initialize, call_tool and cleanup made on the client
MaxCalls == 3

\* the methods a caller awaits, and the tool_name of a call_tool
Methods == {"initialize", "call_tool", "cleanup"}

ToolNames == {"", "get_alerts"}

\* positions inside the try block of initialize: the awaits of lines 57, 64, 69 and 74
InitializePcs == {"aenter_client", "aenter_session", "session_initialize", "list_tools"}

\* coroutine c is inside initialize: in its try block, or in the cleanup of its except
InInitialize(c) ==
  c.pc \in InitializePcs \/ (c.pc \in {"exit_session", "exit_client"} /\ c.raising)

\* coroutine c is inside initialize or inside cleanup
InLifecycle(c) == c.pc \in InitializePcs \cup {"exit_session", "exit_client"}

\* the method returns ("returned") or an exception leaves it: "initialize_raised" (line
\* 88), "ValueError" (line 100), "call_raised" (line 121); the coroutine is over
Finish(c, result) == [IdleCoroutine EXCEPT !.op = c.op, !.result = result]

\* the finally block of cleanup
cleanup_finally(cl) ==
  [cl EXCEPT !.initialized = FALSE, !.session = NoObject, !.client_context = NoObject,
             !.session_context = NoObject]

\* cleanup, from its first line to its first await; raising: it was called by the except
\* block of initialize, which raises again when it returns
cleanup(cl, c, raising) ==
  IF ~cl.initialized
  THEN [client |-> cl, co |-> Finish(c, IF raising THEN "initialize_raised" ELSE "returned")]
  ELSE IF cl.session_context # NoObject
  THEN [client |-> cl,
        co |-> [c EXCEPT !.pc = "exit_session", !.target = cl.session_context,
                         !.raising = raising]]
  ELSE IF cl.client_context # NoObject
  THEN [client |-> cl,
        co |-> [c EXCEPT !.pc = "exit_client", !.target = cl.client_context,
                         !.raising = raising]]
  ELSE [client |-> cleanup_finally(cl),
        co |-> Finish(c, IF raising THEN "initialize_raised" ELSE "returned")]

\* call_tool after ensure_initialized has returned: lines 99-112, up to the await
call_session(cl, c) ==
  IF c.tool = "" THEN Finish(c, "ValueError")                     \* ValueError, line 100
  ELSE IF cl.session = NoObject THEN [c EXCEPT !.pc = "no_session"]  \* None.call_tool
  ELSE [c EXCEPT !.pc = "calling", !.target = cl.session]

\* initialize has returned to its caller
initialize_returns(cl, c) ==
  IF c.op = "call_tool" THEN call_session(cl, c) ELSE Finish(c, "returned")

\* initialize, from its first line to the await of line 57
initialize(cl, c, r, others) ==
  IF cl.initialized
  THEN [client |-> cl, co |-> initialize_returns(cl, c), run |-> r]
  ELSE [client |-> [cl EXCEPT !.client_context = r.objects + 1],
        co |-> [c EXCEPT !.pc = "aenter_client", !.obj = r.objects + 1],
        run |-> [r EXCEPT !.objects = r.objects + 1,
                          !.overlapped = r.overlapped \/ others]]

\* an await of the try block of initialize raised; the except block runs
ExceptBlock(i) ==
  LET e == cleanup(client, co[i], TRUE)
  IN  /\ client' = e.client
      /\ co' = [co EXCEPT ![i] = e.co]

\* a method of the client is called and runs to its first await, as coroutine i (the
\* first that is free)
Call(i) ==
  /\ co[i].pc = "idle"
  /\ \A j \in Coroutines : j < i => co[j].pc # "idle"
  /\ run.calls < MaxCalls
  /\ \E op \in Methods : \E tool \in (IF op = "call_tool" THEN ToolNames ELSE {""}) :
       LET c == [IdleCoroutine EXCEPT !.op = op, !.tool = tool]
           r == [run EXCEPT !.calls = run.calls + 1]
           others == \E j \in Coroutines \ {i} : InLifecycle(co[j])
       IN  IF op = "cleanup"
           THEN LET e == cleanup(client, c, FALSE)
                IN  /\ client' = e.client
                    /\ co' = [co EXCEPT ![i] = e.co]
                    /\ run' = [r EXCEPT !.overlapped =
                                          r.overlapped \/ (InLifecycle(e.co) /\ others)]
           ELSE LET e == initialize(client, c, r, others)
                IN  /\ client' = e.client
                    /\ co' = [co EXCEPT ![i] = e.co]
                    /\ run' = e.run
  /\ UNCHANGED <<subprocesses, sessions, executions>>
  /\ UNCHANGED registry_vars

\* line 57 returns or raises: stdio_client has started the server, or has not
ClientEntered(i) ==
  /\ co[i].pc = "aenter_client"
  /\ \E ok \in BOOLEAN :
       IF ok
       THEN /\ subprocesses' = subprocesses \cup {co[i].obj}
            /\ client' = [client EXCEPT !.session = co[i].obj,
                                         !.session_context = co[i].obj]
            /\ co' = [co EXCEPT ![i].pc = "aenter_session"]
            /\ UNCHANGED run
       ELSE /\ ExceptBlock(i)
            /\ run' = [run EXCEPT !.failed = TRUE]
            /\ UNCHANGED subprocesses
  /\ UNCHANGED <<sessions, executions>>
  /\ UNCHANGED registry_vars

\* line 64 returns or raises; line 69 then reads self.session
SessionEntered(i) ==
  /\ co[i].pc = "aenter_session"
  /\ \E ok \in BOOLEAN :
       IF ok
       THEN /\ sessions' = sessions \cup {co[i].obj}
            /\ IF client.session = NoObject
               THEN ExceptBlock(i)                          \* None.initialize
               ELSE /\ co' = [co EXCEPT ![i].pc = "session_initialize",
                                        ![i].target = client.session]
                    /\ UNCHANGED client
            /\ UNCHANGED run
       ELSE /\ ExceptBlock(i)
            /\ run' = [run EXCEPT !.failed = TRUE]
            /\ UNCHANGED sessions
  /\ UNCHANGED <<subprocesses, executions>>
  /\ UNCHANGED registry_vars

\* line 69 returns or raises; line 74 then reads self.session
SessionInitialized(i) ==
  /\ co[i].pc = "session_initialize"
  /\ \E ok \in BOOLEAN :
       IF ok
       THEN /\ IF client.session = NoObject
               THEN ExceptBlock(i)                          \* None.list_tools
               ELSE /\ co' = [co EXCEPT ![i].pc = "list_tools",
                                        ![i].target = client.session]
                    /\ UNCHANGED client
            /\ UNCHANGED run
       ELSE /\ ExceptBlock(i)
            /\ run' = [run EXCEPT !.failed = TRUE]
  /\ UNCHANGED <<subprocesses, sessions, executions>>
  /\ UNCHANGED registry_vars

\* line 74 returns or raises; lines 75-83, and initialize returns to its caller
ToolsListed(i) ==
  /\ co[i].pc = "list_tools"
  /\ \E ok \in BOOLEAN :
       IF ok
       THEN LET cl == [client EXCEPT !.initialized = TRUE]
            IN  /\ client' = cl
                /\ co' = [co EXCEPT ![i] = initialize_returns(cl, co[i])]
                /\ UNCHANGED run
       ELSE /\ ExceptBlock(i)
            /\ run' = [run EXCEPT !.failed = TRUE]
  /\ UNCHANGED <<subprocesses, sessions, executions>>
  /\ UNCHANGED registry_vars

\* line 112 returns or raises
ToolCalled(i) ==
  /\ co[i].pc = "calling"
  /\ \E ok \in BOOLEAN :
       /\ co' = [co EXCEPT ![i] = Finish(co[i], IF ok THEN "returned" ELSE "call_raised")]
       /\ run' = [run EXCEPT !.failed = run.failed \/ ~ok]
  /\ UNCHANGED <<client, subprocesses, sessions, executions>>
  /\ UNCHANGED registry_vars

\* line 112 without a session: AttributeError, logged and raised again (lines 117-121)
NoSession(i) ==
  /\ co[i].pc = "no_session"
  /\ co' = [co EXCEPT ![i] = Finish(co[i], "call_raised")]
  /\ UNCHANGED <<client, subprocesses, sessions, run, executions>>
  /\ UNCHANGED registry_vars

\* cleanup has run its finally block and returns (or initialize raises again)
CleanedUp(i) ==
  /\ client' = cleanup_finally(client)
  /\ co' = [co EXCEPT ![i] = Finish(co[i], IF co[i].raising THEN "initialize_raised" ELSE "returned")]

\* line 149 returns or raises; a context that was not entered cannot be exited
SessionExited(i) ==
  /\ co[i].pc = "exit_session"
  /\ \E ok \in (IF co[i].target \in sessions THEN BOOLEAN ELSE {FALSE}) :
       IF ok
       THEN /\ sessions' = sessions \ {co[i].target}
            /\ IF client.client_context # NoObject
               THEN /\ co' = [co EXCEPT ![i].pc = "exit_client",
                                        ![i].target = client.client_context]
                    /\ UNCHANGED client
               ELSE CleanedUp(i)
            /\ UNCHANGED run
       ELSE /\ CleanedUp(i)
            /\ run' = [run EXCEPT !.failed = TRUE]
            /\ UNCHANGED sessions
  /\ UNCHANGED <<subprocesses, executions>>
  /\ UNCHANGED registry_vars

\* line 153 returns or raises
ClientExited(i) ==
  /\ co[i].pc = "exit_client"
  /\ \E ok \in (IF co[i].target \in subprocesses THEN BOOLEAN ELSE {FALSE}) :
       /\ subprocesses' = IF ok THEN subprocesses \ {co[i].target} ELSE subprocesses
       /\ run' = [run EXCEPT !.failed = run.failed \/ ~ok]
       /\ CleanedUp(i)
  /\ UNCHANGED <<sessions, executions>>
  /\ UNCHANGED registry_vars

NextMCP ==
  \/ \E i \in Coroutines : Call(i)
  \/ \E i \in Coroutines : ClientEntered(i)
  \/ \E i \in Coroutines : SessionEntered(i)
  \/ \E i \in Coroutines : SessionInitialized(i)
  \/ \E i \in Coroutines : ToolsListed(i)
  \/ \E i \in Coroutines : ToolCalled(i)
  \/ \E i \in Coroutines : NoSession(i)
  \/ \E i \in Coroutines : SessionExited(i)
  \/ \E i \in Coroutines : ClientExited(i)

\* the registry does not take part: it is the one of a process in test mode
InitMCP == Init /\ TEST_MODE

SpecMCP == InitMCP /\ [][NextMCP]_vars

\* the step is a call of a method, made as coroutine i
Called(i) ==
  /\ run'.calls = run.calls + 1
  /\ co[i].pc = "idle"
  /\ \A j \in Coroutines : j < i => co[j].pc # "idle"

\* the step ends the method that coroutine i runs
Ended(i) == co'[i].pc = "idle" /\ (Called(i) \/ co[i].pc # "idle")

\* C24: initialize is idempotent and starts at most one server.  While no await has
\* raised, at most one server subprocess and one session are open, and they are the
\* ones the client refers to: none is orphaned.
C24_OneSubprocess ==
  ~run.failed =>
    /\ Cardinality(subprocesses) <= 1
    /\ Cardinality(sessions) <= 1
    /\ subprocesses \subseteq {client.client_context}
    /\ sessions \subseteq {client.session_context}

\* C24, first half: initialize on an initialized client does nothing
C24_InitializeIdempotent ==
  [][ \A i \in Coroutines :
        (Called(i) /\ co'[i].op = "initialize" /\ client.initialized) =>
          /\ co'[i] = Finish(co'[i], "returned")
          /\ UNCHANGED <<client, subprocesses, sessions>> ]_vars

\* C24 where no await has raised and no two coroutines were inside initialize or cleanup
\* together
C24_OneSubprocessOfSerialInitialize ==
  (~run.failed /\ ~run.overlapped) =>
    /\ Cardinality(subprocesses) <= 1
    /\ Cardinality(sessions) <= 1
    /\ subprocesses \subseteq {client.client_context}
    /\ sessions \subseteq {client.session_context}

\* the step is the one in which initialize, run by coroutine i, raises again (line 88)
\* after the server or the session of this call was entered
InitializeRaises(i) ==
  /\ InInitialize(co[i])
  /\ Ended(i)
  /\ co'[i].result = "initialize_raised"
  /\ co[i].obj \in subprocesses

\* C25: a failed initialize releases what it acquired.  When initialize raises after
\* its stdio context or its session was entered, both contexts have been exited and
\* the client is as constructed: not initialized, session and both contexts None.
C25_FailedInitializeReleases ==
  [][ \A i \in Coroutines :
        InitializeRaises(i) =>
          /\ client' = MCPClient
          /\ co[i].obj \notin subprocesses'
          /\ co[i].obj \notin sessions' ]_vars

\* the steps of cleanup and call_tool that C26 is about
LifecycleStep(i) ==
  /\ (co[i].pc # "calling" /\ co'[i].pc = "calling") =>
       client'.initialized /\ client'.session # NoObject
  /\ (Ended(i) /\ co'[i].op = "cleanup" /\ (Called(i) => client.initialized)) =>
       client' = MCPClient
  /\ (Called(i) /\ co'[i].op = "cleanup" /\ ~client.initialized) =>
       Ended(i) /\ UNCHANGED <<client, subprocesses, sessions>>
  /\ (Called(i) /\ co'[i].op = "call_tool" /\ ~client.initialized) =>
       co'[i].pc = "aenter_client"

\* C26: session lifecycle.  call_tool reaches the call of line 112 only on an
\* initialized client with a session; a cleanup of an initialized client ends with the
\* client not initialized, session and both contexts None, also when closing a context
\* raises; a cleanup of a client that is not initialized does nothing; a call_tool on a
\* client that is not initialized initializes it first.
C26_SessionLifecycle ==
  /\ [](\A i \in Coroutines : co[i].pc # "no_session")
  /\ [][\A i \in Coroutines : LifecycleStep(i)]_vars

\* C26 where no two coroutines were inside initialize or cleanup together
C26_SessionLifecycleOfSerialLifecycle ==
  /\ [](~run.overlapped => \A i \in Coroutines : co[i].pc # "no_session")
  /\ [][~run.overlapped' => \A i \in Coroutines : LifecycleStep(i)]_vars

\* C26, the steps of cleanup and call_tool alone
C26_LifecycleSteps == [][\A i \in Coroutines : LifecycleStep(i)]_vars

-----------------------------------------------------------------------------
(* The executors of src/agents/alerts/slim_alerts_wrapper_fixed.py and     *)
(* src/agents/planner/slim_planner_wrapper_fixed.py.  The request handler  *)
(* calls execute or cancel with a RequestContext and the EventQueue of the *)
(* call.  Texts are modelled without their leading emoji.                  *)

Agents == {"alerts", "planner"}

\* number of alerts execute lists: alerts_data[:3]
ListedAlerts == 3

\* Message(message_id=str(uuid4()), parts=[TextPart(text=text)], role="agent")
Message(text) == [role |-> "agent", text |-> text]

\* an element of alerts_data: a dict or not, with attributes.header or without
Alert(header) == [dict |-> TRUE, has_header |-> TRUE, header |-> header]

AlertNoHeader == [dict |-> TRUE, has_header |-> FALSE, header |-> ""]

AlertNotDict == [dict |-> FALSE, has_header |-> FALSE, header |-> ""]

\* what client.get of the MBTA API can give: an exception, a body that is not JSON,
\* or a JSON body with its "data"
AlertsUpstream ==
  { [kind |-> "raises", e |-> "ReadTimeout"],
    [kind |-> "response", json |-> FALSE, data |-> <<>>],
    [kind |-> "response", json |-> TRUE, data |-> <<>>],
    [kind |-> "response", json |-> TRUE, data |-> <<Alert("Red Line delay")>>],
    [kind |-> "response", json |-> TRUE,
     data |-> <<Alert("A"), AlertNoHeader, Alert("C"), AlertNotDict>>],
    [kind |-> "response", json |-> TRUE, data |-> <<Alert("A"), AlertNotDict>>] }

\* what chat.completions.create can give: an exception, or a completion whose content
\* is JSON or not, a JSON object or not, with origin and destination ("" for null)
PlannerUpstream ==
  { [kind |-> "raises", e |-> "APIConnectionError"],
    [kind |-> "completion", json |-> FALSE, object |-> FALSE, origin |-> "",
     destination |-> ""],
    [kind |-> "completion", json |-> TRUE, object |-> FALSE, origin |-> "",
     destination |-> ""],
    [kind |-> "completion", json |-> TRUE, object |-> TRUE, origin |-> "Park Street",
     destination |-> ""],
    [kind |-> "completion", json |-> TRUE, object |-> TRUE, origin |-> "Park Street",
     destination |-> "Kendall/MIT"] }

\* lines 67-69 of the alerts executor, from alert i on
RECURSIVE AlertLines(_, _)
AlertLines(data, i) ==
  IF i > Len(data) \/ i > ListedAlerts THEN ""
  ELSE ToString(i) \o ". "
         \o (IF data[i].has_header THEN data[i].header ELSE "Unknown") \o "\n"
         \o AlertLines(data, i + 1)

\* lines 55-69 of the alerts executor, given what client.get gave: the text, or the
\* exception raised
alerts_text(upstream) ==
  IF upstream.kind = "raises" THEN [ok |-> FALSE, text |-> upstream.e]
  ELSE IF ~upstream.json THEN [ok |-> FALSE, text |-> "JSONDecodeError"]
  ELSE IF Len(upstream.data) = 0 THEN [ok |-> TRUE, text |-> "No active alerts found"]
  ELSE IF \E i \in 1..Len(upstream.data) : i <= ListedAlerts /\ ~upstream.data[i].dict
  THEN [ok |-> FALSE, text |-> "AttributeError"]
  ELSE [ok |-> TRUE,
        text |-> "Found " \o ToString(Len(upstream.data)) \o " active MBTA alerts\n"
                   \o AlertLines(upstream.data, 1)]

\* lines 83-101 of the planner executor, given what the completion call gave
planner_text(upstream) ==
  IF upstream.kind = "raises" THEN [ok |-> FALSE, text |-> upstream.e]
  ELSE IF ~upstream.json THEN [ok |-> FALSE, text |-> "JSONDecodeError"]
  ELSE IF ~upstream.object THEN [ok |-> FALSE, text |-> "AttributeError"]
  ELSE IF upstream.origin = "" \/ upstream.destination = ""
  THEN [ok |-> TRUE,
        text |-> "I need both an origin and destination to plan a route. "
                   \o "Where are you starting from and where do you want to go?"]
  ELSE [ok |-> TRUE,
        text |-> "Planning route from " \o upstream.origin \o " to "
                   \o upstream.destination \o "...\n"
                   \o "Route: Take the Red Line from " \o upstream.origin \o " to "
                   \o upstream.destination]

\* an except block that lets the exception leave execute
except_Propagates(x, e) == [x EXCEPT !.pc = "done", !.result = e]

\* the except block of execute: the error Message is built and enqueue_event awaited
except(x, e) == [x EXCEPT !.pc = "enqueue", !.pending = Message("Error: " \o e)]

\* the try block from the point where the upstream step has answered
try(x, t) ==
  IF t.ok THEN [x EXCEPT !.pc = "enqueue", !.pending = Message(t.text)]
  ELSE except(x, t.text)

\* execute is called; has_message: context.message is a Message.  The alerts executor
\* runs to the await of client.get, the planner executor, whose completion call does
\* not await, to the await of enqueue_event
Execute(k) ==
  /\ executions[k].pc = "idle"
  /\ \E agent \in Agents, has_message \in BOOLEAN :
       \E upstream \in (IF agent = "planner" /\ has_message THEN PlannerUpstream
                        ELSE {NoUpstream}) :
         LET x == [NoExecution EXCEPT !.agent = agent, !.op = "execute",
                                      !.upstream = upstream]
         IN  executions' =
               [executions EXCEPT ![k] =
                  IF ~has_message THEN except([x EXCEPT !.upstream = [kind |-> "no_message"]],
                                              "AttributeError")
                  ELSE IF agent = "alerts" THEN [x EXCEPT !.pc = "fetching"]
                  ELSE try(x, planner_text(upstream))]
  /\ UNCHANGED <<client, subprocesses, sessions, co, run>>
  /\ UNCHANGED registry_vars

\* client.get returns or raises; lines 60-78 run to the await of enqueue_event
Fetched(k) ==
  /\ executions[k].pc = "fetching"
  /\ \E upstream \in AlertsUpstream :
       executions' = [executions EXCEPT ![k] =
                        try([executions[k] EXCEPT !.upstream = upstream],
                            alerts_text(upstream))]
  /\ UNCHANGED <<client, subprocesses, sessions, co, run>>
  /\ UNCHANGED registry_vars

\* enqueue_event returns, and execute with it
Enqueued(k) ==
  /\ executions[k].pc = "enqueue"
  /\ executions' = [executions EXCEPT ![k].event_queue = Append(@, executions[k].pending),
                                      ![k].pending = NoMessage,
                                      ![k].pc = "done",
                                      ![k].result = "returned"]
  /\ UNCHANGED <<client, subprocesses, sessions, co, run>>
  /\ UNCHANGED registry_vars

\* cancel is called
Cancel(k) ==
  /\ executions[k].pc = "idle"
  /\ \E agent \in Agents :
       executions' = [executions EXCEPT ![k] =
                        [NoExecution EXCEPT !.agent = agent, !.op = "cancel",
                                            !.pc = "done",
                                            !.result = "NotImplementedError"]]
  /\ UNCHANGED <<client, subprocesses, sessions, co, run>>
  /\ UNCHANGED registry_vars

NextExecutors ==
  \/ \E k \in Slots : Execute(k)
  \/ \E k \in Slots : Fetched(k)
  \/ \E k \in Slots : Enqueued(k)
  \/ \E k \in Slots : Cancel(k)

\* the event loop resumes a coroutine whose await has completed; client.get has a
\* timeout of 10 s (line 58) and the queue takes the event
SpecExecutors ==
  /\ InitMCP
  /\ [][NextExecutors]_vars
  /\ \A k \in Slots : WF_vars(Fetched(k)) /\ WF_vars(Enqueued(k))

\* what the upstream step of a finished execute call came to
Outcome(x) ==
  IF x.upstream.kind = "no_message" THEN [ok |-> FALSE, text |-> "AttributeError"]
  ELSE IF x.agent = "alerts" THEN alerts_text(x.upstream)
  ELSE planner_text(x.upstream)

\* a finished call has answered as C27 says
HasAnswered(x) ==
  IF x.op = "cancel"
  THEN x.result = "NotImplementedError" /\ x.event_queue = <<>>
  ELSE /\ x.result = "returned"
       /\ Len(x.event_queue) = 1
       /\ x.event_queue[1].role = "agent"
       /\ x.event_queue[1].text = IF Outcome(x).ok THEN Outcome(x).text
                                  ELSE "Error: " \o Outcome(x).text

\* C27: agent executors always answer.  Every execute call of the alerts and of the
\* planner executor ends, and ends without an exception, with exactly one Message of
\* role 'agent' on its event queue - the result when the upstream step succeeded, an
\* 'Error: ...' text when it raised; before it ends nothing else is on the queue; cancel
\* raises NotImplementedError and enqueues nothing.
C27_ExecutorsAnswer ==
  /\ [](\A k \in Slots :
          IF executions[k].pc = "done" THEN HasAnswered(executions[k])
          ELSE executions[k].event_queue = <<>>)
  /\ \A k \in Slots :
       (executions[k].op = "execute") ~> (executions[k].pc = "done")

\* both executors have answered a call whose upstream step raised, one Message each
C27_Witness ==
  /\ \A k \in Slots : executions[k].pc = "done" /\ executions[k].op = "execute"
  /\ {executions[k].agent : k \in Slots} = Agents
  /\ \A k \in Slots : executions[k].upstream.kind = "raises"
  /\ \A k \in Slots : Len(executions[k].event_queue) = 1

====
